---------------------------- MODULE Spec2Model ----------------------------
(***************************************************************************)
(* AirTracker-Backend: the ingestion cycle (feed adapters, fusion, filter, *)
(* persistence, daily aggregate) and the track reconstructor, modelled     *)
(* from src/dist/services/tracker.js (the compiled multi-source service),  *)
(* src/src/db/index.ts (schema) and src/src/routes/aircraft.ts.            *)
(*                                                                         *)
(* Representation of values:                                               *)
(*  - a JavaScript / SQL scalar is a record [t, n, cs]: t is "null"        *)
(*    (null, undefined or SQL NULL), "num" (n holds the number) or "str"   *)
(*    (cs holds the string as a sequence of one-character strings);        *)
(*  - instants are integers in milliseconds (Date.getTime()); a duration   *)
(*    in seconds with millisecond resolution is held in thousandths of a   *)
(*    second, so that x / 1000 of the code is exact;                       *)
(*  - geographic points lie on the equator and their longitude is held in  *)
(*    kilometres of arc, where the haversine distance is |lon2 - lon1|.    *)
(***************************************************************************)
EXTENDS Integers, Sequences, FiniteSets, TLC

VARIABLES
    (* splitIntoSegments applied to an input sequence *)
    segInput, segOutput, segPc,
    (* getAllTracksLast24h applied to a positions table *)
    trkTable, trkAircraft, trkNow, trkArgs, tracks, trkPc,
    (* the two feed adapters and the fusion of their outputs *)
    adsb, opensky, mergedAircraft, fetchPc,
    (* the store and one ingestion cycle over it *)
    aircraft, positions, daily_stats, now, pc, russianAircraft, idx,
    storedCount, statsRow, result, outcome, cleanupRet, dbFailed, cycles,
    (* getLiveAircraft applied to the tables of getAllTracksLast24h *)
    live,
    (* getAircraftHistory and the track route applied to the store *)
    history, geojson,
    (* aircraftResult.rows of a getAllTracksLast24h call in progress *)
    acRows,
    (* isRussianAircraft applied to an identifier *)
    clsInput, clsOutput, clsPc,
    (* calls of fetchAndStoreRussianAircraft started by the scheduler *)
    calls, sched,
    (* the request DELETE /api/aircraft/tracks *)
    clearPc

segVars   == <<segInput, segOutput, segPc>>
trkVars   == <<trkTable, trkAircraft, trkNow, trkArgs, tracks, trkPc, live, history, geojson, acRows>>
fetchVars == <<adsb, opensky, mergedAircraft, fetchPc>>
cycleVars == <<aircraft, positions, daily_stats, now, pc, russianAircraft, idx,
               storedCount, statsRow, result, outcome, cleanupRet, dbFailed, cycles>>
classVars == <<clsInput, clsOutput, clsPc>>
schedVars == <<calls, sched, clearPc>>
vars      == <<segVars, trkVars, fetchVars, cycleVars, classVars, schedVars>>

----------------------------------------------------------------------------
(* Scalars *)

JNull    == [t |-> "null", n |-> 0, cs |-> <<>>]
JNum(x)  == [t |-> "num",  n |-> x, cs |-> <<>>]
JStr(s)  == [t |-> "str",  n |-> 0, cs |-> s]

(* JavaScript truthiness of a scalar: null, undefined, "" and 0 are falsy. *)
Truthy(v) == \/ v.t = "str" /\ v.cs # <<>>
             \/ v.t = "num" /\ v.n # 0

Min(a, b) == IF a < b THEN a ELSE b

RECURSIVE SeqSum(_)
SeqSum(s) == IF s = <<>> THEN 0 ELSE Head(s) + SeqSum(Tail(s))

RECURSIVE Flatten(_)
Flatten(ss) == IF ss = <<>> THEN <<>> ELSE Head(ss) \o Flatten(Tail(ss))

RECURSIVE SelectSeqBy(_, _)
(* Array.prototype.filter with the kept indices given as a set. *)
SelectSeqBy(s, keep) ==
    IF s = <<>> THEN <<>>
    ELSE LET rest == SelectSeqBy(Tail(s), {i - 1 : i \in keep \ {1}})
         IN IF 1 \in keep THEN <<Head(s)>> \o rest ELSE rest

----------------------------------------------------------------------------
(* Classifier *)

LowerChar(c) ==
    CASE c = "A" -> "a" [] c = "B" -> "b" [] c = "C" -> "c"
      [] c = "D" -> "d" [] c = "E" -> "e" [] c = "F" -> "f"
      [] OTHER -> c

(* A mutant of toLowerCase: the string is left as it is. *)
toLowerCase_none(s) == s

toLowerCase(s) == [i \in 1..Len(s) |-> LowerChar(s[i])]

(* String.prototype.substring(0, 3) *)
substring3(s) == SubSeq(s, 1, Min(3, Len(s)))

RUSSIAN_ICAO_PREFIXES ==
    << <<"1","4","0">>, <<"1","4","1">>, <<"1","4","2">>, <<"1","4","3">>,
       <<"1","4","4">>, <<"1","4","5">>, <<"1","4","6">>, <<"1","4","7">>,
       <<"1","4","8">>, <<"1","4","9">>, <<"1","4","a">>, <<"1","4","b">>,
       <<"1","4","c">>, <<"1","4","d">>, <<"1","4","e">>, <<"1","4","f">>,
       <<"1","5","0">>, <<"1","5","1">>, <<"1","5","2">>, <<"1","5","3">>,
       <<"1","5","4">>, <<"1","5","5">>, <<"1","5","6">>, <<"1","5","7">> >>

isRussianAircraft(icao24) ==
    IF ~Truthy(icao24) THEN FALSE
    ELSE LET prefix == substring3(toLowerCase(icao24.cs))
         IN \E k \in 1..Len(RUSSIAN_ICAO_PREFIXES) : RUSSIAN_ICAO_PREFIXES[k] = prefix

----------------------------------------------------------------------------
(* Track reconstructor: splitIntoSegments *)

MAX_POSITION_GAP_SECONDS == 300

(* A mutant of GapExceeds: a gap of exactly the threshold splits too. *)
GapExceeds_inclusive(gapSeconds) == gapSeconds >= MAX_POSITION_GAP_SECONDS * 1000

(* gapSeconds > MAX_POSITION_GAP_SECONDS, gapSeconds in thousandths *)
GapExceeds(gapSeconds) == gapSeconds > MAX_POSITION_GAP_SECONDS * 1000

Segment(ps, gapBefore, gapDuration) ==
    [positions |-> ps, hasGapBefore |-> gapBefore, gapDurationSeconds |-> gapDuration]

RECURSIVE SplitLoop(_, _, _, _)
(* The for loop of splitIntoSegments, i being the 1-based index of positions[i]. *)
SplitLoop(ps, i, segments, currentSegment) ==
    IF i > Len(ps) THEN [segments |-> segments, currentSegment |-> currentSegment]
    ELSE
      LET prevTime   == ps[i - 1].timestamp
          currTime   == ps[i].timestamp
          gapSeconds == currTime - prevTime
      IN IF GapExceeds(gapSeconds)
         THEN LET saved  == IF Len(currentSegment) >= 1
                            THEN Append(segments, Segment(currentSegment, FALSE, JNull))
                            ELSE segments
                  marked == Append(saved, Segment(<<>>, TRUE, JNum(gapSeconds)))
              IN SplitLoop(ps, i + 1, marked, <<ps[i]>>)
         ELSE SplitLoop(ps, i + 1, segments, Append(currentSegment, ps[i]))

(* "Add final segment": the pending gap marker, if any, is merged into it. *)
SplitFinal(segments, currentSegment) ==
    IF Len(currentSegment) >= 1
    THEN IF Len(segments) > 0 /\ Len(segments[Len(segments)].positions) = 0
         THEN LET gapMarker == segments[Len(segments)]
              IN Append(SubSeq(segments, 1, Len(segments) - 1),
                        Segment(currentSegment, TRUE, gapMarker.gapDurationSeconds))
         ELSE Append(segments, Segment(currentSegment, FALSE, JNull))
    ELSE segments

(* segments.filter(s => s.positions.length >= 1) *)
SplitFilter(segments) ==
    SelectSeqBy(segments, {k \in 1..Len(segments) : Len(segments[k].positions) >= 1})

splitIntoSegments(ps) ==
    IF Len(ps) = 0 THEN <<>>
    ELSE LET r == SplitLoop(ps, 2, <<>>, <<ps[1]>>)
         IN SplitFilter(SplitFinal(r.segments, r.currentSegment))

----------------------------------------------------------------------------
(* Track reconstructor: getAllTracksLast24h over the positions table *)

DAY_MS == 86400000

Abs(x) == IF x < 0 THEN 0 - x ELSE x

(* Haversine distance in km between two points of the equator, longitudes in
   km of arc: a = sin^2(dLon/2), c = |dLon|, R * c = |lon2 - lon1|. *)
haversineDistance(lat1, lon1, lat2, lon2) == Abs(lon2 - lon1)

(* The asset military_hex.json is not part of the repository: the catch
   branch leaves the set empty. *)
militaryHexCodes == {}

isMilitary(icao24) == toLowerCase(icao24) \in militaryHexCodes

(* Order of the hexadecimal characters in an ORDER BY on icao24. *)
HexChars == <<"0","1","2","3","4","5","6","7","8","9","a","b","c","d","e","f">>

CharRank(c) == CHOOSE k \in 1..Len(HexChars) : HexChars[k] = c

RECURSIVE StrLess(_, _)
StrLess(a, b) ==
    IF b = <<>> THEN FALSE
    ELSE IF a = <<>> THEN TRUE
    ELSE IF Head(a) = Head(b) THEN StrLess(Tail(a), Tail(b))
    ELSE CharRank(Head(a)) < CharRank(Head(b))

Perms(S) == {f \in [1..Cardinality(S) -> S] : \A i, j \in DOMAIN f : i # j => f[i] # f[j]}

(* A mutant of InWindow: the queries have no WHERE on the timestamp. *)
InWindow_all(row, nowMs) == TRUE

(* WHERE timestamp > NOW() - INTERVAL '24 hours' *)
InWindow(row, nowMs) == row.timestamp > nowMs - DAY_MS

(* ORDER BY p.icao24, p.timestamp DESC puts row x strictly before row y. *)
AircraftBefore(x, y) ==
    \/ StrLess(x.icao24, y.icao24)
    \/ x.icao24 = y.icao24 /\ x.timestamp > y.timestamp

(* The orders the aircraft query may return the table's rows (by index) of
   the last 24 hours in; rows the ORDER BY ties come in any order. *)
AircraftQueryOrders(table, nowMs) ==
    {f \in Perms({i \in 1..Len(table) : InWindow(table[i], nowMs)}) :
        \A i, j \in DOMAIN f : i < j => ~AircraftBefore(table[f[j]], table[f[i]])}

(* The orders of "ORDER BY timestamp ASC" over those rows. *)
PositionQueryOrders(table, nowMs) ==
    {f \in Perms({i \in 1..Len(table) : InWindow(table[i], nowMs)}) :
        \A i, j \in DOMAIN f : i < j => table[f[i]].timestamp <= table[f[j]].timestamp}

(* A mutant of DistinctOn: a plain SELECT, every row of the order. *)
DistinctOn_all(table, ord) == ord

(* SELECT DISTINCT ON (p.icao24): the first row of each icao24 in the order. *)
DistinctOn(table, ord) ==
    SelectSeqBy(ord, {k \in 1..Len(ord) :
                        \A j \in 1..(k - 1) : table[ord[j]].icao24 # table[ord[k]].icao24})

shouldFilter(args) ==
    args.centerLat.t # "null" /\ args.centerLon.t # "null" /\ args.radiusKm.t # "null"

(* A mutant of WithinRadius: the boundary is exclusive. *)
WithinRadius_strict(pos, args) ==
    IF pos.latitude.t = "null" \/ pos.longitude.t = "null" THEN FALSE
    ELSE haversineDistance(args.centerLat.n, args.centerLon.n,
                           pos.latitude.n, pos.longitude.n) < args.radiusKm.n

(* The callback of positions.filter *)
WithinRadius(pos, args) ==
    IF pos.latitude.t = "null" \/ pos.longitude.t = "null" THEN FALSE
    ELSE LET distance == haversineDistance(args.centerLat.n, args.centerLon.n,
                                           pos.latitude.n, pos.longitude.n)
         IN distance <= args.radiusKm.n

(* A mutant of EnoughPositions: one position is enough for a track. *)
EnoughPositions_one(ps) == Len(ps) >= 1

(* positions.length >= 2 *)
EnoughPositions(ps) == Len(ps) >= 2

(* The columns the per-aircraft query selects. *)
TrackPos(row) ==
    [latitude |-> row.latitude, longitude |-> row.longitude,
     altitude |-> row.altitude, timestamp |-> row.timestamp]

(* The columns the aircraft query selects of row a, aircraft_type through
   the LEFT JOIN. *)
AircraftRow(table, acTable, a) ==
    [icao24        |-> table[a].icao24,
     callsign      |-> table[a].callsign,
     aircraft_type |-> IF table[a].icao24 \in DOMAIN acTable
                       THEN acTable[table[a].icao24].aircraft_type
                       ELSE JNull]

(* One iteration of the loop over aircraftResult.rows: the track of the
   aircraft of the row ac, or no track. *)
TrackOfRow(table, ac, ordT, args) ==
    LET mine     == SelectSeqBy(ordT, {k \in 1..Len(ordT) :
                                         table[ordT[k]].icao24 = ac.icao24})
        rows     == [k \in 1..Len(mine) |-> TrackPos(table[mine[k]])]
        filtered == IF shouldFilter(args)
                    THEN SelectSeqBy(rows, {k \in 1..Len(rows) : WithinRadius(rows[k], args)})
                    ELSE rows
        segments == splitIntoSegments(filtered)
    IN IF EnoughPositions(filtered)
       THEN << [icao24        |-> ac.icao24,
                callsign      |-> ac.callsign,
                aircraft_type |-> ac.aircraft_type,
                positions     |-> filtered,
                segments      |-> segments,
                is_military   |-> isMilitary(ac.icao24)] >>
       ELSE <<>>

TrackOf(table, acTable, a, ordT, args) ==
    TrackOfRow(table, AircraftRow(table, acTable, a), ordT, args)

(* ord: the order the aircraft query returned its rows in; ordT: the order
   the position queries returned theirs in. *)
getAllTracksLast24h(table, acTable, args, ord, ordT) ==
    LET aircraftRows == DistinctOn(table, ord)
    IN Flatten([k \in 1..Len(aircraftRows) |->
                  TrackOf(table, acTable, aircraftRows[k], ordT, args)])

----------------------------------------------------------------------------
(* Inputs of splitIntoSegments: time-ordered sequences of positions, each   *)
(* later than the previous one by one of Deltas (milliseconds).             *)

MaxLen == 4

Deltas == {0, 60000, 300000, 300001, 480000}

SegPos(ts) == [latitude |-> JNum(0), longitude |-> JNum(0), altitude |-> JNull, timestamp |-> ts]

RECURSIVE TimesOf(_, _)
TimesOf(t0, ds) == IF ds = <<>> THEN <<t0>> ELSE <<t0>> \o TimesOf(t0 + Head(ds), Tail(ds))

SegInputs ==
    {<<>>} \cup
    UNION {{[i \in 1..(n + 1) |-> SegPos(TimesOf(0, ds)[i])] : ds \in [1..n -> Deltas]}
           : n \in 0..(MaxLen - 1)}

SegIdle == segInput = <<>> /\ segOutput = <<>> /\ segPc = "idle"
TrkIdle == /\ trkTable = <<>> /\ trkAircraft = {} /\ trkNow = 0
           /\ trkArgs = JNull /\ tracks = <<>> /\ trkPc = "idle" /\ live = <<>>
           /\ history = <<>> /\ geojson = JNull /\ acRows = <<>>
FetchIdle == /\ adsb = <<>> /\ opensky = <<>> /\ mergedAircraft = <<>>
             /\ fetchPc = "idle"
CycleIdle == /\ aircraft = <<>> /\ positions = <<>> /\ daily_stats = <<>> /\ now = 0
             /\ pc = "idle" /\ russianAircraft = <<>> /\ idx = 0
             /\ storedCount = 0 /\ statsRow = JNull /\ result = JNull /\ outcome = <<>>
             /\ cleanupRet = 0 /\ dbFailed = {} /\ cycles = 0
ClassIdle == clsInput = JNull /\ clsOutput = FALSE /\ clsPc = "idle"
SchedIdle == calls = <<>> /\ sched = <<>> /\ clearPc = "idle"

InitSeg ==
    /\ segInput \in SegInputs
    /\ segOutput = <<>>
    /\ segPc = "call"
    /\ TrkIdle /\ FetchIdle /\ CycleIdle /\ ClassIdle /\ SchedIdle

CallSplit ==
    /\ segPc = "call"
    /\ segOutput' = splitIntoSegments(segInput)
    /\ segPc' = "done"
    /\ UNCHANGED <<segInput, trkVars, fetchVars, cycleVars, classVars, schedVars>>

NextSeg == CallSplit

SpecSeg == InitSeg /\ [][NextSeg]_vars

----------------------------------------------------------------------------
(* Claims about splitIntoSegments *)

Gap(a, b) == b.timestamp - a.timestamp
LastOf(s) == s[Len(s)]

(* C3: for every time-ordered input the first returned segment has
   hasGapBefore = FALSE, and every later segment has hasGapBefore = TRUE with
   gapDurationSeconds equal to the time between the last position of the
   preceding segment and its own first position. Stated as the claim reads;
   the code's output violates it as soon as there are three runs. *)
C3_GapFlags ==
    segPc = "done" =>
        \A k \in 1..Len(segOutput) :
            /\ Len(segOutput[k].positions) >= 1
            /\ IF k = 1
               THEN segOutput[k].hasGapBefore = FALSE
               ELSE /\ segOutput[k].hasGapBefore = TRUE
                    /\ segOutput[k].gapDurationSeconds =
                         JNum(Gap(LastOf(segOutput[k - 1].positions),
                                  segOutput[k].positions[1]))

(* C4: the returned segments partition the input into maximal runs: their
   concatenation is the input, none is empty, consecutive positions inside a
   segment are at most 300 s apart, and a segment's last position and the
   next segment's first are more than 300 s apart. *)
C4_Partition ==
    segPc = "done" =>
        /\ Flatten([k \in 1..Len(segOutput) |-> segOutput[k].positions]) = segInput
        /\ \A k \in 1..Len(segOutput) :
             LET ps == segOutput[k].positions
             IN /\ Len(ps) >= 1
                /\ \A i \in 1..(Len(ps) - 1) :
                     Gap(ps[i], ps[i + 1]) <= MAX_POSITION_GAP_SECONDS * 1000
                /\ k > 1 =>
                     Gap(LastOf(segOutput[k - 1].positions), ps[1])
                        > MAX_POSITION_GAP_SECONDS * 1000

(* C4's case: three runs, one of which holds a gap of exactly 300 s. *)
C4_Witness ==
    /\ segPc = "done"
    /\ Len(segOutput) >= 3
    /\ \E k \in 1..Len(segOutput) :
         \E i \in 1..(Len(segOutput[k].positions) - 1) :
            Gap(segOutput[k].positions[i], segOutput[k].positions[i + 1])
               = MAX_POSITION_GAP_SECONDS * 1000

----------------------------------------------------------------------------
(* Inputs of getAllTracksLast24h: a positions table whose rows were inserted
   in time order (timestamp is CURRENT_TIMESTAMP at insert), queried at
   TrkNow with or without a geographic filter. *)

MaxRows == 3

IdA == <<"1","4","a","0","0","1">>
IdB == <<"1","5","7","f","f","f">>

TrkNow == DAY_MS + 1000000

(* Older than 24 hours, exactly 24 hours old, and three recent instants. *)
TrkTimes == <<500000, 1000000, 1000001, 1060001, 1400000>>

(* Radius 50 km around longitude 0: at 50 km, at 51 km, and rows the schema
   allows with a NULL coordinate. *)
TrkRowKinds ==
    { [icao24 |-> IdA, latitude |-> JNum(0), longitude |-> JNum(50)],
      [icao24 |-> IdA, latitude |-> JNum(0), longitude |-> JNum(51)],
      [icao24 |-> IdA, latitude |-> JNull,   longitude |-> JNum(50)],
      [icao24 |-> IdB, latitude |-> JNum(0), longitude |-> JNum(50)],
      [icao24 |-> IdB, latitude |-> JNum(0), longitude |-> JNull] }

TrkRow(kind, ts) ==
    [icao24 |-> kind.icao24, callsign |-> JNull, latitude |-> kind.latitude,
     longitude |-> kind.longitude, altitude |-> JNull, timestamp |-> ts]

(* The ways to give n rows timestamps that do not decrease with the
   insertion order. *)
TrkStamps(n) ==
    {f \in [1..n -> 1..Len(TrkTimes)] : \A i \in 1..(n - 1) : f[i] <= f[i + 1]}

TrkArgsSet ==
    { [centerLat |-> JNull,   centerLon |-> JNull,   radiusKm |-> JNull],
      [centerLat |-> JNum(0), centerLon |-> JNum(0), radiusKm |-> JNull],
      [centerLat |-> JNum(0), centerLon |-> JNum(0), radiusKm |-> JNum(50)] }

TrkAircraftTable ==
    [id \in {IdA, IdB} |-> [aircraft_type |-> IF id = IdA THEN JStr(<<"A","3","2","0">>) ELSE JNull]]

InitTracks ==
    /\ \E n \in 0..MaxRows : \E ts \in TrkStamps(n) : \E ks \in [1..n -> TrkRowKinds] :
          trkTable = [i \in 1..n |-> TrkRow(ks[i], TrkTimes[ts[i]])]
    /\ trkAircraft = TrkAircraftTable
    /\ trkNow = TrkNow
    /\ trkArgs = JNull
    /\ tracks = <<>>
    /\ live = <<>> /\ history = <<>> /\ geojson = JNull /\ acRows = <<>>
    /\ trkPc = "call"
    /\ SegIdle /\ FetchIdle /\ CycleIdle /\ ClassIdle /\ SchedIdle

GetAllTracks ==
    /\ trkPc = "call"
    /\ \E o \in AircraftQueryOrders(trkTable, trkNow) \X PositionQueryOrders(trkTable, trkNow) :
         \E args \in TrkArgsSet :
            /\ trkArgs' = args
            /\ tracks' = getAllTracksLast24h(trkTable, trkAircraft, args, o[1], o[2])
    /\ trkPc' = "done"
    /\ UNCHANGED <<trkTable, trkAircraft, trkNow, live, history, geojson, acRows, segVars, classVars, schedVars,
                   fetchVars, cycleVars>>

NextTracks == GetAllTracks

SpecTracks == InitTracks /\ [][NextTracks]_vars

----------------------------------------------------------------------------
(* Claims about getAllTracksLast24h *)

(* The samples of an identifier that qualify: of the last 24 hours and,
   when all three filter arguments are given, with both coordinates and at
   most radiusKm from the center. *)
Qualifying(id) ==
    {i \in 1..Len(trkTable) :
        /\ trkTable[i].icao24 = id
        /\ trkTable[i].timestamp > trkNow - DAY_MS
        /\ shouldFilter(trkArgs) =>
             /\ trkTable[i].latitude.t # "null"
             /\ trkTable[i].longitude.t # "null"
             /\ Abs(trkTable[i].longitude.n - trkArgs.centerLon.n) <= trkArgs.radiusKm.n}

(* C6: a track is emitted for an identifier only if at least 2 of its
   samples remain after the optional geographic filter; an identifier with 0
   or 1 qualifying samples has no track; at most one track per identifier. *)
C6_TrackNeedsTwo ==
    trkPc = "done" =>
        /\ \A k \in 1..Len(tracks) : Cardinality(Qualifying(tracks[k].icao24)) >= 2
        /\ \A id \in {IdA, IdB} :
             Cardinality(Qualifying(id)) < 2 =>
                \A k \in 1..Len(tracks) : tracks[k].icao24 # id
        /\ \A j, k \in 1..Len(tracks) : j # k => tracks[j].icao24 # tracks[k].icao24

(* C6's case: one identifier has a track, the other has exactly one
   qualifying sample left by the filter and has none. *)
C6_Witness ==
    /\ trkPc = "done"
    /\ shouldFilter(trkArgs)
    /\ Len(tracks) = 1
    /\ \E id \in {IdA, IdB} : Cardinality(Qualifying(id)) = 1

(* C7: with a geographic filter supplied, a sample of the window is retained
   iff its latitude and longitude are non-null and its distance from the
   center is at most the radius (the boundary is retained): an identifier
   with two such samples has a track, and the positions of every emitted
   track are exactly those samples of its identifier. *)
C7_GeoFilterInclusive ==
    (trkPc = "done" /\ shouldFilter(trkArgs)) =>
      /\ \A id \in {IdA, IdB} :
           Cardinality(Qualifying(id)) >= 2 => \E k \in 1..Len(tracks) : tracks[k].icao24 = id
      /\ \A k \in 1..Len(tracks) :
            /\ Len(tracks[k].positions) = Cardinality(Qualifying(tracks[k].icao24))
            /\ \A i \in Qualifying(tracks[k].icao24) :
                 \E j \in 1..Len(tracks[k].positions) :
                    tracks[k].positions[j] = TrackPos(trkTable[i])
            /\ \A j \in 1..Len(tracks[k].positions) :
                 LET p == tracks[k].positions[j]
                 IN /\ p.latitude.t # "null" /\ p.longitude.t # "null"
                    /\ Abs(p.longitude.n - trkArgs.centerLon.n) <= trkArgs.radiusKm.n

(* C7's case: a track keeps a sample at exactly the radius while a sample of
   the same identifier beyond the radius is dropped. *)
C7_Witness ==
    /\ trkPc = "done"
    /\ shouldFilter(trkArgs)
    /\ \E k \in 1..Len(tracks) :
         /\ \E j \in 1..Len(tracks[k].positions) :
              Abs(tracks[k].positions[j].longitude.n - trkArgs.centerLon.n)
                 = trkArgs.radiusKm.n
         /\ \E i \in 1..Len(trkTable) :
              /\ trkTable[i].icao24 = tracks[k].icao24
              /\ InWindow(trkTable[i], trkNow)
              /\ trkTable[i].latitude.t # "null"
              /\ Abs(trkTable[i].longitude.n - trkArgs.centerLon.n) > trkArgs.radiusKm.n

----------------------------------------------------------------------------
(* Feed adapters *)

(* String.prototype.trim over the blank character *)
RECURSIVE TrimLeft(_)
TrimLeft(s) == IF s # <<>> /\ Head(s) = " " THEN TrimLeft(Tail(s)) ELSE s

RECURSIVE TrimRight(_)
TrimRight(s) ==
    IF s # <<>> /\ s[Len(s)] = " " THEN TrimRight(SubSeq(s, 1, Len(s) - 1)) ELSE s

trim(s) == TrimRight(TrimLeft(s))

(* x?.trim() || dflt *)
TrimOr(x, dflt) ==
    IF x.t = "null" THEN dflt
    ELSE IF trim(x.cs) # <<>> THEN JStr(trim(x.cs)) ELSE dflt

(* An aircraft record of the ADSB.one payload (ADSBoneAircraft); source is
   the _source tag, "none" where the record has none. *)
Ac(hex, flight, lat, lon, alt_baro, alt_geom, typ, desc, source) ==
    [hex |-> hex, flight |-> flight, lat |-> lat, lon |-> lon,
     alt_baro |-> alt_baro, alt_geom |-> alt_geom, t |-> typ, desc |-> desc,
     source |-> source]

(* The fields read of an OpenSky state vector: state[0], state[1], state[5],
   state[6], state[7], state[13]. *)
StateVector(icao24, callsign, lon, lat, baro_altitude, geo_altitude) ==
    [s0 |-> icao24, s1 |-> callsign, s5 |-> lon, s6 |-> lat,
     s7 |-> baro_altitude, s13 |-> geo_altitude]

(* The object fetchFromOpenSky pushes for a state vector. *)
OpenSkyAc(state) ==
    Ac(state.s0, TrimOr(state.s1, JNull), state.s6, state.s5, state.s7, state.s13,
       JNull, JNull, "opensky")

(* What one region's request comes to: fetch rejects ("throw"), the response
   is not ok ("notok"), response.json() rejects ("badjson"), the payload has
   no ac / states field ("nofield"), or it carries a list of records ("ok"). *)
Failure(kind) == [kind |-> kind, list |-> <<>>]
Payload(list) == [kind |-> "ok", list |-> list]

(* Whether the try block of a region's iteration raises. *)
RegionRaises(resp) == resp.kind \in {"throw", "badjson"}

(* A mutant of RegionErrorEscapes: the exception leaves the adapter. *)
RegionErrorEscapes_rethrow(raised) == raised

(* The catch of a region's iteration: it logs, and nothing escapes. *)
RegionErrorEscapes(raised) == FALSE

(* hex && !seenHex.has(hex) *)
AdapterAdmits(hex, seenHex) == Truthy(hex) /\ hex.cs \notin seenHex

RECURSIVE ADSBoneRecords(_, _, _)
(* for (const ac of data.ac) of fetchFromADSBone *)
ADSBoneRecords(allAircraft, seenHex, list) ==
    IF list = <<>> THEN [allAircraft |-> allAircraft, seenHex |-> seenHex]
    ELSE LET ac == Head(list)
         IN IF AdapterAdmits(ac.hex, seenHex)
            THEN ADSBoneRecords(Append(allAircraft, ac), seenHex \cup {ac.hex.cs}, Tail(list))
            ELSE ADSBoneRecords(allAircraft, seenHex, Tail(list))

RECURSIVE OpenSkyRecords(_, _, _)
(* for (const state of data.states) of fetchFromOpenSky *)
OpenSkyRecords(allAircraft, seenHex, list) ==
    IF list = <<>> THEN [allAircraft |-> allAircraft, seenHex |-> seenHex]
    ELSE LET state == Head(list)
             hex   == state.s0
         IN IF AdapterAdmits(hex, seenHex)
            THEN OpenSkyRecords(Append(allAircraft, OpenSkyAc(state)),
                                seenHex \cup {hex.cs}, Tail(list))
            ELSE OpenSkyRecords(allAircraft, seenHex, Tail(list))

(* An adapter between two regions: the regions queried so far, its two
   accumulators, and whether an exception left it. *)
AdapterStart == [i |-> 0, allAircraft |-> <<>>, seenHex |-> {}, threw |-> FALSE]

(* One iteration of "for (const point of coveragePoints)". *)
ADSBoneRegion(a, resp) ==
    LET got == IF resp.kind = "ok"
               THEN ADSBoneRecords(a.allAircraft, a.seenHex, resp.list)
               ELSE [allAircraft |-> a.allAircraft, seenHex |-> a.seenHex]
    IN [i |-> a.i + 1, allAircraft |-> got.allAircraft, seenHex |-> got.seenHex,
        threw |-> RegionErrorEscapes(RegionRaises(resp))]

(* One iteration of "for (const bbox of boundingBoxes)". *)
OpenSkyRegion(a, resp) ==
    LET got == IF resp.kind = "ok"
               THEN OpenSkyRecords(a.allAircraft, a.seenHex, resp.list)
               ELSE [allAircraft |-> a.allAircraft, seenHex |-> a.seenHex]
    IN [i |-> a.i + 1, allAircraft |-> got.allAircraft, seenHex |-> got.seenHex,
        threw |-> RegionErrorEscapes(RegionRaises(resp))]

NumCoveragePoints == 13
NumBoundingBoxes == 2

----------------------------------------------------------------------------
(* Fusion engine: the merge of fetchAndStoreRussianAircraft *)

RECURSIVE MergeADSBone(_, _, _)
(* "Add ADSB.one aircraft first" *)
MergeADSBone(merged, seenHex, list) ==
    IF list = <<>> THEN [merged |-> merged, seenHex |-> seenHex]
    ELSE LET ac == Head(list)
         IN IF Truthy(ac.hex)
            THEN MergeADSBone(Append(merged, ac), seenHex \cup {toLowerCase(ac.hex.cs)},
                              Tail(list))
            ELSE MergeADSBone(merged, seenHex, Tail(list))

(* A mutant of MergeAdmits: the identifier is compared as it came. *)
MergeAdmits_caseSensitive(hex, seenHex) == Truthy(hex) /\ hex.cs \notin seenHex

(* ac.hex && !seenHex.has(ac.hex.toLowerCase()) *)
MergeAdmits(hex, seenHex) == Truthy(hex) /\ toLowerCase(hex.cs) \notin seenHex

RECURSIVE MergeOpenSky(_, _, _)
(* "Add OpenSky aircraft that weren't in ADSB.one" *)
MergeOpenSky(merged, seenHex, list) ==
    IF list = <<>> THEN [merged |-> merged, seenHex |-> seenHex]
    ELSE LET ac == Head(list)
         IN IF MergeAdmits(ac.hex, seenHex)
            THEN MergeOpenSky(Append(merged, ac), seenHex \cup {toLowerCase(ac.hex.cs)},
                              Tail(list))
            ELSE MergeOpenSky(merged, seenHex, Tail(list))

(* mergedAircraft of fetchAndStoreRussianAircraft, from adsbData.ac and
   openSkyAircraft. *)
Merge(adsbAc, openSkyAircraft) ==
    LET first == MergeADSBone(<<>>, {}, adsbAc)
    IN MergeOpenSky(first.merged, first.seenHex, openSkyAircraft).merged

----------------------------------------------------------------------------
(* The feeds' answers, and the two adapters run side by side (Promise.all),
   each region's answer drawn when the region is queried. *)

MaxRegionLen == 2

HexUpper == <<"1","4","A","B","C","D">>
HexLower == <<"1","4","a","b","c","d">>
HexOther == <<"a","a","b","b","c","c">>
HexLast  == <<"1","5","7","f","f","f">>

AdsbPool ==
    { Ac(JStr(HexUpper), JStr(<<"A","F","L","1">>), JNum(0), JNum(50), JNum(0), JNull,
         JStr(<<"A","3","2","0">>), JNull, "none"),
      Ac(JStr(HexLower), JNull, JNum(0), JNum(51), JStr(<<"g","r","o","u","n","d">>), JNull,
         JNull, JNull, "none"),
      Ac(JStr(HexOther), JStr(<<"B","A","W","2">>), JNum(0), JNum(0), JNull, JNull,
         JNull, JNull, "none"),
      Ac(JNull, JNull, JNull, JNull, JNull, JNull, JNull, JNull, "none") }

OpenSkyPool ==
    { StateVector(JStr(HexLower), JStr(<<"S","D","M","9"," ">>), JNum(50), JNum(0), JNull, JNum(9000)),
      StateVector(JStr(HexUpper), JStr(<<" ">>), JNull, JNull, JNull, JNull),
      StateVector(JStr(HexLast), JNull, JNum(0), JNum(0), JNum(3000), JNull) }

ListsOver(pool) == UNION {[1..n -> pool] : n \in 0..MaxRegionLen}

Responses(pool) ==
    {Failure(k) : k \in {"throw", "notok", "badjson", "nofield"}}
        \cup {Payload(l) : l \in ListsOver(pool)}

(* The identifiers a payload offers: those of its records that have one. *)
Offered(hexes) == {hexes[k].cs : k \in {j \in 1..Len(hexes) : Truthy(hexes[j])}}

NotedStart == [offered |-> {}, succeeded |-> FALSE, failed |-> FALSE, recovered |-> FALSE]

InitFetch ==
    /\ adsb = AdapterStart @@ NotedStart
    /\ opensky = AdapterStart @@ NotedStart
    /\ mergedAircraft = <<>>
    /\ fetchPc = "fetching"
    /\ SegIdle /\ TrkIdle /\ CycleIdle /\ ClassIdle /\ SchedIdle

(* Bookkeeping for the claims: the identifiers offered by the regions that
   answered with a payload so far, whether a region has answered with a
   payload, whether one has failed, and whether one has answered with a
   payload after an earlier one failed. *)
Noted(a, resp, ids) ==
    LET ok == resp.kind = "ok"
    IN [offered   |-> IF ok THEN a.offered \cup ids ELSE a.offered,
        succeeded |-> a.succeeded \/ ok,
        failed    |-> a.failed \/ ~ok,
        recovered |-> a.recovered \/ (ok /\ a.failed)]

FetchADSBoneRegion ==
    /\ fetchPc = "fetching"
    /\ adsb.i < NumCoveragePoints /\ ~adsb.threw
    /\ \E resp \in Responses(AdsbPool) :
         adsb' = ADSBoneRegion(adsb, resp)
                   @@ Noted(adsb, resp, Offered([k \in 1..Len(resp.list) |-> resp.list[k].hex]))
    /\ UNCHANGED <<opensky, mergedAircraft, fetchPc, segVars, classVars, schedVars, trkVars, cycleVars>>

FetchOpenSkyRegion ==
    /\ fetchPc = "fetching"
    /\ opensky.i < NumBoundingBoxes /\ ~opensky.threw
    /\ \E resp \in Responses(OpenSkyPool) :
         opensky' = OpenSkyRegion(opensky, resp)
                      @@ Noted(opensky, resp, Offered([k \in 1..Len(resp.list) |-> resp.list[k].s0]))
    /\ UNCHANGED <<adsb, mergedAircraft, fetchPc, segVars, classVars, schedVars, trkVars, cycleVars>>

(* Both adapters have returned: Promise.all resolves and the lists are merged. *)
MergeFeeds ==
    /\ fetchPc = "fetching"
    /\ adsb.i = NumCoveragePoints /\ ~adsb.threw
    /\ opensky.i = NumBoundingBoxes /\ ~opensky.threw
    /\ mergedAircraft' = Merge(adsb.allAircraft, opensky.allAircraft)
    /\ fetchPc' = "merged"
    /\ UNCHANGED <<adsb, opensky, segVars, classVars, schedVars, trkVars, cycleVars>>

NextFetch == FetchADSBoneRegion \/ FetchOpenSkyRegion \/ MergeFeeds

SpecFetch == InitFetch /\ [][NextFetch]_vars

----------------------------------------------------------------------------
(* Claims about the adapters and the fusion *)

LowerHex(ac) == toLowerCase(ac.hex.cs)

Occurrences(seq, x) == Cardinality({k \in 1..Len(seq) : seq[k] = x})

(* C1: for any outputs of the two adapters the fused list holds at most one
   entry per lower-cased identifier. Stated as the claim reads; the code's
   output violates it when ADSB.one returns one identifier in two casings. *)
C1_FusedUnique ==
    fetchPc = "merged" =>
        \A j, k \in 1..Len(mergedAircraft) :
            j # k => LowerHex(mergedAircraft[j]) # LowerHex(mergedAircraft[k])

(* C2: when the ADSB.one adapter and the OpenSky adapter both return a record
   with the same identifier after lower-casing, exactly one of the two is in
   the fused list, and it is the ADSB.one record. *)
C2_AdsbWins ==
    fetchPc = "merged" =>
        \A j \in 1..Len(adsb.allAircraft) : \A k \in 1..Len(opensky.allAircraft) :
            LowerHex(adsb.allAircraft[j]) = LowerHex(opensky.allAircraft[k]) =>
                /\ Occurrences(mergedAircraft, adsb.allAircraft[j]) = 1
                /\ Occurrences(mergedAircraft, opensky.allAircraft[k]) = 0

(* C2's case: the two adapters returned the same identifier in different
   casings, and another OpenSky record was admitted. *)
C2_Witness ==
    /\ fetchPc = "merged"
    /\ \E j \in 1..Len(adsb.allAircraft) : \E k \in 1..Len(opensky.allAircraft) :
         /\ LowerHex(adsb.allAircraft[j]) = LowerHex(opensky.allAircraft[k])
         /\ adsb.allAircraft[j].hex # opensky.allAircraft[k].hex
    /\ \E k \in 1..Len(mergedAircraft) : mergedAircraft[k].source = "opensky"

AdapterIsolates(a, regions) ==
    /\ ~a.threw
    /\ a.i <= regions
    /\ {a.allAircraft[k].hex.cs : k \in 1..Len(a.allAircraft)} = a.offered
    /\ ~a.succeeded => a.allAircraft = <<>>

(* C8: a failed region (thrown fetch, non-OK response, unparseable or
   field-less payload) is isolated: no exception leaves the adapter, so the
   remaining regions are still queried; the list holds the identifiers of
   every region that answered with a payload; and it is empty when no region
   did. Checked after every region of both adapters. *)
C8_RegionFailureIsolated ==
    /\ AdapterIsolates(adsb, NumCoveragePoints)
    /\ AdapterIsolates(opensky, NumBoundingBoxes)
    /\ fetchPc = "merged" =>
         adsb.i = NumCoveragePoints /\ opensky.i = NumBoundingBoxes

(* C8's case: both adapters have returned; in ADSB.one a region failed and
   a later one delivered records, in OpenSky no region succeeded. *)
C8_Witness ==
    /\ fetchPc = "merged"
    /\ adsb.recovered /\ adsb.allAircraft # <<>>
    /\ opensky.failed /\ ~opensky.succeeded /\ opensky.allAircraft = <<>>

----------------------------------------------------------------------------
(* The store (aircraft, positions, daily_stats) and the queries of one
   ingestion cycle *)

(* A mutant of Nullish: a || b, which also passes over 0 and ''. *)
Nullish_falsy(a, b) == IF Truthy(a) THEN a ELSE b

(* a ?? b *)
Nullish(a, b) == IF a.t = "null" THEN b ELSE a

(* a || b *)
OrElse(a, b) == IF Truthy(a) THEN a ELSE b

(* A mutant of COALESCE: the new value is taken as it is. *)
COALESCE_new(new, old) == new

(* COALESCE(EXCLUDED.x, aircraft.x) *)
COALESCE(new, old) == IF new.t # "null" THEN new ELSE old

GROUND == JStr(<<"g","r","o","u","n","d">>)

(* The values fetchAndStoreRussianAircraft derives from a fused record. *)
Derived(ac) ==
    LET altitude == Nullish(ac.alt_baro, Nullish(ac.alt_geom, JNull))
    IN [icao24        |-> toLowerCase(ac.hex.cs),
        callsign      |-> TrimOr(ac.flight, JNull),
        latitude      |-> ac.lat,
        longitude     |-> ac.lon,
        altitude      |-> altitude,
        onGround      |-> (ac.alt_baro = GROUND \/ altitude = JNum(0)),
        aircraft_type |-> OrElse(ac.t, OrElse(ac.desc, JNull))]

(* The column widths of the schema: icao24 VARCHAR(6), callsign VARCHAR(20),
   aircraft_type VARCHAR(50); a longer value makes the statement fail. *)
FitsColumns(d) ==
    /\ Len(d.icao24) <= 6
    /\ Len(d.callsign.cs) <= 20
    /\ Len(d.aircraft_type.cs) <= 50

(* A mutant of Sightings: the count of the row proposed for insertion. *)
Sightings_excluded(stored) == 1

(* total_sightings = aircraft.total_sightings + 1, evaluated on the row the
   statement has locked. *)
Sightings(stored) == stored + 1

(* A mutant of UpsertAircraft: on conflict the row is replaced by the
   inserted values. *)
UpsertAircraft_replace(tbl, d, ts) ==
    [id \in DOMAIN tbl \cup {d.icao24} |->
        IF id = d.icao24
        THEN [callsign        |-> d.callsign,
              origin_country  |-> "Russia",
              registration    |-> JNull,
              aircraft_type   |-> d.aircraft_type,
              first_seen      |-> ts,
              last_seen       |-> ts,
              total_sightings |-> 1]
        ELSE tbl[id]]

(* INSERT INTO aircraft ... ON CONFLICT (icao24) DO UPDATE SET ... *)
UpsertAircraft(tbl, d, ts) ==
    IF d.icao24 \in DOMAIN tbl
    THEN [tbl EXCEPT ![d.icao24] =
            [@ EXCEPT !.callsign        = COALESCE(d.callsign, @),
                      !.aircraft_type   = COALESCE(d.aircraft_type, @),
                      !.last_seen       = ts,
                      !.total_sightings = Sightings(@)]]
    ELSE tbl @@ (d.icao24 :> [callsign        |-> d.callsign,
                              origin_country  |-> "Russia",
                              registration    |-> JNull,
                              aircraft_type   |-> d.aircraft_type,
                              first_seen      |-> ts,
                              last_seen       |-> ts,
                              total_sightings |-> 1])

(* A mutant of ForeignKeyHolds: positions has no foreign key. *)
ForeignKeyHolds_none(acTable, icao24) == TRUE

(* FOREIGN KEY (icao24) REFERENCES aircraft(icao24): the row can be inserted. *)
ForeignKeyHolds(acTable, icao24) == icao24 \in DOMAIN acTable

(* A mutant of HasCoordinates: one coordinate is enough. *)
HasCoordinates_either(d) == d.latitude.t # "null" \/ d.longitude.t # "null"

(* latitude != null && longitude != null *)
HasCoordinates(d) == d.latitude.t # "null" /\ d.longitude.t # "null"

(* The row of INSERT INTO positions; velocity, heading and vertical_rate are
   copied from fields the modelled feeds leave out. *)
PositionRow(d, ts) ==
    [icao24    |-> d.icao24,
     callsign  |-> d.callsign,
     latitude  |-> d.latitude,
     longitude |-> d.longitude,
     altitude  |-> IF d.altitude.t = "num" THEN d.altitude ELSE JNull,
     on_ground |-> d.onGround,
     timestamp |-> ts]

(* DELETE FROM positions WHERE timestamp < NOW() - INTERVAL '24 hours' *)
Expired(tbl, nowMs) == {k \in 1..Len(tbl) : tbl[k].timestamp < nowMs - DAY_MS}

(* new Date().toISOString().split('T')[0] and DATE(timestamp), both as the
   number of the UTC day. *)
DateOf(ts) == ts \div DAY_MS

(* SELECT COUNT(DISTINCT icao24), COUNT of rows FROM positions WHERE DATE(timestamp) = $1 *)
DayCounts(tbl, today) ==
    LET rows == {k \in 1..Len(tbl) : DateOf(tbl[k].timestamp) = today}
    IN [unique_aircraft |-> Cardinality({tbl[k].icao24 : k \in rows}),
        total_positions |-> Cardinality(rows)]

(* A mutant of KeepRussian: no nationality filter. *)
KeepRussian_all(merged) == merged

(* mergedAircraft.filter((ac) => isRussianAircraft(ac.hex)) *)
KeepRussian(merged) ==
    SelectSeqBy(merged, {k \in 1..Len(merged) : isRussianAircraft(merged[k].hex)})

(* A mutant of StoreErrorEscapes: the loop body has no try / catch. *)
StoreErrorEscapes_rethrow(raised) == raised

(* The catch around one aircraft's upsert and insert: it logs only. *)
StoreErrorEscapes(raised) == FALSE

(* A mutant of CleanupErrorEscapes: cleanupOldData rethrows. *)
CleanupErrorEscapes_rethrow(raised) == raised

(* The catch of cleanupOldData: it logs and returns 0. *)
CleanupErrorEscapes(raised) == FALSE

(* The catch of updateDailyStats: it logs only. *)
StatsErrorEscapes(raised) == FALSE

(* A mutant of Summary: the two counts change places. *)
Summary_swapped(tracked, stored) == [kind |-> "summary", tracked |-> stored, stored |-> tracked]

(* { tracked, stored }, or the error the outer catch rethrows. *)
Summary(tracked, stored) == [kind |-> "summary", tracked |-> tracked, stored |-> stored]
Thrown == [kind |-> "error", tracked |-> 0, stored |-> 0]

RECURSIVE RunADSBone(_, _)
(* fetchFromADSBone over the answers of its regions, in order. *)
RunADSBone(a, resps) ==
    IF resps = <<>> \/ a.threw THEN a ELSE RunADSBone(ADSBoneRegion(a, Head(resps)), Tail(resps))

RECURSIVE RunOpenSky(_, _)
(* fetchFromOpenSky over the answers of its regions, in order. *)
RunOpenSky(a, resps) ==
    IF resps = <<>> \/ a.threw THEN a ELSE RunOpenSky(OpenSkyRegion(a, Head(resps)), Tail(resps))

----------------------------------------------------------------------------
(* The ingestion cycle, one step per awaited operation. Every statement sent
   to the database may fail. *)

MaxCycles == 2

(* The time between two starts of the cycle: the cron period of 30 s, or a
   pause of a little over a day. *)
StartDelays == {30000, DAY_MS + 30000}

(* What the feeds answer in a cycle, as the answers of the first ADSB.one
   point and of the first OpenSky box; the second point's fetch is rejected
   and every other region answers with an empty payload. *)
AcUpper == Ac(JStr(HexUpper), JStr(<<"A","F","L","1">>), JNum(0), JNum(50), JNum(0), JNull,
              JStr(<<"A","3","2","0">>), JNull, "none")
AcOther == Ac(JStr(HexOther), JStr(<<"B","A","W","2">>), JNum(0), JNum(0), JNull, JNull,
              JNull, JNull, "none")
SvLower == StateVector(JStr(HexLower), JStr(<<"S","D","M","9"," ">>), JNum(51), JNull,
                       JNull, JNum(9000))
SvLast  == StateVector(JStr(HexLast), JNull, JNum(51), JNum(0), JNum(3000), JNull)

FeedAnswers ==
    { [adsb |-> Failure("notok"),             opensky |-> Failure("throw")],
      [adsb |-> Payload(<<AcOther>>),          opensky |-> Failure("badjson")],
      [adsb |-> Payload(<<AcUpper, AcOther>>), opensky |-> Payload(<<SvLower, SvLast>>)],
      [adsb |-> Failure("nofield"),            opensky |-> Payload(<<SvLower>>)] }

AdsbAnswers(first) ==
    [k \in 1..NumCoveragePoints |->
        IF k = 1 THEN first ELSE IF k = 2 THEN Failure("throw") ELSE Payload(<<>>)]

OpenSkyAnswers(first) ==
    [k \in 1..NumBoundingBoxes |-> IF k = 1 THEN first ELSE Payload(<<>>)]

Init ==
    /\ aircraft = <<>>
    /\ positions = <<>>
    /\ daily_stats = <<>>
    /\ now = 0
    /\ pc = "idle"
    /\ russianAircraft = <<>>
    /\ idx = 0
    /\ storedCount = 0
    /\ statsRow = JNull
    /\ result = JNull
    /\ outcome = <<>>
    /\ cleanupRet = 0
    /\ dbFailed = {}
    /\ cycles = 0
    /\ adsb = AdapterStart
    /\ opensky = AdapterStart
    /\ mergedAircraft = <<>>
    /\ fetchPc = "idle"
    /\ SegIdle /\ TrkIdle /\ ClassIdle /\ SchedIdle

(* The scheduler (cron, or the start-up timer) calls
   fetchAndStoreRussianAircraft. Calls are taken one after the other, each
   starting after the previous one has returned, and the statements of a
   call read the clock as it stood when the call started. *)
StartCycle ==
    /\ pc \in {"idle", "done"}
    /\ cycles < MaxCycles
    /\ cycles' = cycles + 1
    /\ \E d \in StartDelays : now' = now + d
    /\ pc' = "cleanup"
    /\ result' = JNull /\ dbFailed' = {} /\ cleanupRet' = 0
    /\ russianAircraft' = <<>> /\ outcome' = <<>> /\ idx' = 0 /\ storedCount' = 0
    /\ statsRow' = JNull
    /\ adsb' = AdapterStart /\ opensky' = AdapterStart /\ mergedAircraft' = <<>>
    /\ UNCHANGED <<aircraft, positions, daily_stats, fetchPc, segVars, classVars, schedVars, trkVars>>

(* cleanupOldData: the DELETE succeeds. *)
CleanupOldData ==
    /\ pc = "cleanup"
    /\ LET gone == Expired(positions, now)
       IN /\ positions' = SelectSeqBy(positions, (1..Len(positions)) \ gone)
          /\ cleanupRet' = Cardinality(gone)
    /\ pc' = "fetch"
    /\ UNCHANGED <<aircraft, daily_stats, now, russianAircraft, idx, storedCount, statsRow,
                   result, outcome, dbFailed, cycles, segVars, classVars, schedVars, trkVars, fetchVars>>

(* cleanupOldData: the DELETE fails. *)
CleanupOldDataFails ==
    /\ pc = "cleanup"
    /\ cleanupRet' = 0
    /\ dbFailed' = {"cleanup"}
    /\ IF CleanupErrorEscapes(TRUE)
       THEN pc' = "done" /\ result' = Thrown
       ELSE pc' = "fetch" /\ UNCHANGED result
    /\ UNCHANGED <<aircraft, positions, daily_stats, now, russianAircraft, idx, storedCount,
                   statsRow, outcome, cycles, segVars, classVars, schedVars, trkVars, fetchVars>>

(* A mutant of AfterRecord: the loop is left after its first record. *)
AfterRecord_leaveEarly(i, n) == "stats"

(* Where the loop over russianAircraft goes after the record at i. *)
AfterRecord(i, n) == IF i < n THEN "upsert" ELSE "stats"

(* What the two adapters return for each of the feeds' answers, and the
   merge of the two lists. *)
Fused ==
    { LET a == RunADSBone(AdapterStart, AdsbAnswers(f.adsb))
          o == RunOpenSky(AdapterStart, OpenSkyAnswers(f.opensky))
      IN [adsb |-> a, opensky |-> o, merged |-> Merge(a.allAircraft, o.allAircraft)]
      : f \in FeedAnswers }

(* A mutant of NothingFused: the empty-result return is left out. *)
NothingFused_never(merged) == FALSE

(* mergedAircraft.length === 0 *)
NothingFused(merged) == Len(merged) = 0

(* Promise.all of the two adapters, the merge, the empty-result return and
   the nationality filter. *)
FetchAndMerge ==
    /\ pc = "fetch"
    /\ \E f \in Fused :
         LET a      == f.adsb
             o      == f.opensky
             merged == f.merged
             kept   == KeepRussian(merged)
         IN /\ adsb' = a
            /\ opensky' = o
            /\ mergedAircraft' = merged
            /\ IF a.threw \/ o.threw
               THEN /\ pc' = "done" /\ result' = Thrown
                    /\ UNCHANGED <<russianAircraft, outcome, idx>>
               ELSE IF NothingFused(merged)
               THEN /\ pc' = "done" /\ result' = Summary(0, 0)
                    /\ UNCHANGED <<russianAircraft, outcome, idx>>
               ELSE /\ russianAircraft' = kept
                    /\ outcome' = [k \in 1..Len(kept) |-> "pending"]
                    /\ idx' = 1
                    /\ pc' = AfterRecord(0, Len(kept))
                    /\ UNCHANGED result
    /\ UNCHANGED <<aircraft, positions, daily_stats, now, storedCount, statsRow, cleanupRet,
                   dbFailed, cycles, fetchPc, segVars, classVars, schedVars, trkVars>>

(* A region request that never responds: fetch(url, { headers }) carries no
   timeout or abort signal, so its promise stays pending. *)
Pending == [kind |-> "pending", list |-> <<>>]

(* The adapter reaches a pending request, since no earlier region makes it
   return or throw; its await, and Promise.all over the two adapters, then
   never resume. *)
NeverSettles(resps) == \E k \in 1..Len(resps) : resps[k] = Pending

(* A region request of one adapter never responds: the call stays at the
   await of Promise.all. *)
FetchNeverSettles ==
    /\ pc = "fetch"
    /\ \E f \in FeedAnswers : \E k \in 1..NumCoveragePoints : \E j \in 1..NumBoundingBoxes :
          \/ NeverSettles([AdsbAnswers(f.adsb) EXCEPT ![k] = Pending])
          \/ NeverSettles([OpenSkyAnswers(f.opensky) EXCEPT ![j] = Pending])
    /\ pc' = "awaitingFetch"
    /\ UNCHANGED <<aircraft, positions, daily_stats, now, russianAircraft, idx, storedCount,
                   statsRow, result, outcome, cleanupRet, dbFailed, cycles, segVars, classVars,
                   schedVars, trkVars, fetchVars>>

(* A mutant of CountWithoutPosition: storedCount++ follows the if. *)
CountWithoutPosition_counted(n) == n + 1

(* storedCount++ lies inside "if (latitude != null && longitude != null)":
   a record without coordinates leaves the count as it is. *)
CountWithoutPosition(n) == n

(* The upsert of russianAircraft[idx] succeeds; without coordinates the loop
   moves on. *)
UpsertRecord ==
    /\ pc = "upsert"
    /\ LET d == Derived(russianAircraft[idx])
       IN /\ FitsColumns(d)
          /\ aircraft' = UpsertAircraft(aircraft, d, now)
          /\ IF HasCoordinates(d)
             THEN pc' = "insert" /\ UNCHANGED <<idx, outcome, storedCount>>
             ELSE /\ outcome' = [outcome EXCEPT ![idx] = "noCoordinates"]
                  /\ storedCount' = CountWithoutPosition(storedCount)
                  /\ idx' = idx + 1
                  /\ pc' = AfterRecord(idx, Len(russianAircraft))
    /\ UNCHANGED <<positions, daily_stats, now, russianAircraft, statsRow, result,
                   cleanupRet, dbFailed, cycles, segVars, classVars, schedVars, trkVars, fetchVars>>

(* A mutant of UpsertErrorSkipsInsert: each statement has a try of its own,
   so the insert follows a failed upsert. *)
UpsertErrorSkipsInsert_separate(d) == FALSE

(* One try block holds the upsert and the insert of a record: an error of
   the upsert leaves the block before the insert. *)
UpsertErrorSkipsInsert(d) == TRUE

(* The upsert fails: the catch of the loop body takes over. *)
UpsertRecordFails ==
    /\ pc = "upsert"
    /\ outcome' = [outcome EXCEPT ![idx] = "upsertFailed"]
    /\ IF StoreErrorEscapes(TRUE)
       THEN pc' = "done" /\ result' = Thrown /\ UNCHANGED idx
       ELSE IF UpsertErrorSkipsInsert(Derived(russianAircraft[idx]))
               \/ ~HasCoordinates(Derived(russianAircraft[idx]))
       THEN /\ idx' = idx + 1
            /\ pc' = AfterRecord(idx, Len(russianAircraft))
            /\ UNCHANGED result
       ELSE pc' = "insert" /\ UNCHANGED <<idx, result>>
    /\ UNCHANGED <<aircraft, positions, daily_stats, now, russianAircraft, storedCount,
                   statsRow, cleanupRet, dbFailed, cycles, segVars, classVars, schedVars, trkVars, fetchVars>>

(* The insert of the position succeeds (its icao24 has an aircraft row). *)
InsertPosition ==
    /\ pc = "insert"
    /\ LET d == Derived(russianAircraft[idx])
       IN /\ ForeignKeyHolds(aircraft, d.icao24)
          /\ positions' = Append(positions, PositionRow(d, now))
    /\ storedCount' = storedCount + 1
    /\ outcome' = [outcome EXCEPT ![idx] = "stored"]
    /\ idx' = idx + 1
    /\ pc' = AfterRecord(idx, Len(russianAircraft))
    /\ UNCHANGED <<aircraft, daily_stats, now, russianAircraft, statsRow, result, cleanupRet,
                   dbFailed, cycles, segVars, classVars, schedVars, trkVars, fetchVars>>

(* The insert fails. *)
InsertPositionFails ==
    /\ pc = "insert"
    /\ outcome' = [outcome EXCEPT ![idx] = "insertFailed"]
    /\ IF StoreErrorEscapes(TRUE)
       THEN pc' = "done" /\ result' = Thrown /\ UNCHANGED idx
       ELSE /\ idx' = idx + 1
            /\ pc' = AfterRecord(idx, Len(russianAircraft))
            /\ UNCHANGED result
    /\ UNCHANGED <<aircraft, positions, daily_stats, now, russianAircraft, storedCount,
                   statsRow, cleanupRet, dbFailed, cycles, segVars, classVars, schedVars, trkVars, fetchVars>>

(* updateDailyStats: the SELECT of today's counts. *)
SelectDayCounts ==
    /\ pc = "stats"
    /\ statsRow' = [today |-> DateOf(now)] @@ DayCounts(positions, DateOf(now))
    /\ pc' = "statsUpsert"
    /\ UNCHANGED <<aircraft, positions, daily_stats, now, russianAircraft, idx, storedCount,
                   result, outcome, cleanupRet, dbFailed, cycles,
                   segVars, classVars, schedVars, trkVars, fetchVars>>

(* updateDailyStats: the upsert of the daily_stats row. *)
UpsertDailyStats ==
    /\ pc = "statsUpsert"
    /\ daily_stats' =
         [d \in DOMAIN daily_stats \cup {statsRow.today} |->
            IF d = statsRow.today
            THEN [unique_aircraft |-> statsRow.unique_aircraft,
                  total_positions |-> statsRow.total_positions]
            ELSE daily_stats[d]]
    /\ pc' = "return"
    /\ UNCHANGED <<aircraft, positions, now, russianAircraft, idx, storedCount, statsRow,
                   result, outcome, cleanupRet, dbFailed, cycles,
                   segVars, classVars, schedVars, trkVars, fetchVars>>

(* Either statement of updateDailyStats fails. *)
UpdateDailyStatsFails ==
    /\ pc \in {"stats", "statsUpsert"}
    /\ dbFailed' = dbFailed \cup {"stats"}
    /\ IF StatsErrorEscapes(TRUE)
       THEN pc' = "done" /\ result' = Thrown
       ELSE pc' = "return" /\ UNCHANGED result
    /\ UNCHANGED <<aircraft, positions, daily_stats, now, russianAircraft, idx, storedCount,
                   statsRow, outcome, cleanupRet, cycles, segVars, classVars, schedVars, trkVars, fetchVars>>

(* return { tracked: russianAircraft.length, stored: storedCount } *)
ReturnSummary ==
    /\ pc = "return"
    /\ result' = Summary(Len(russianAircraft), storedCount)
    /\ pc' = "done"
    /\ UNCHANGED <<aircraft, positions, daily_stats, now, russianAircraft, idx, storedCount,
                   statsRow, outcome, cleanupRet, dbFailed, cycles,
                   segVars, classVars, schedVars, trkVars, fetchVars>>

Next ==
    \/ StartCycle
    \/ CleanupOldData
    \/ CleanupOldDataFails
    \/ FetchAndMerge
    \/ FetchNeverSettles
    \/ UpsertRecord
    \/ UpsertRecordFails
    \/ InsertPosition
    \/ InsertPositionFails
    \/ SelectDayCounts
    \/ UpsertDailyStats
    \/ UpdateDailyStatsFails
    \/ ReturnSummary

Spec == Init /\ [][Next]_vars

(* The event loop resumes every call whose awaited promise has settled, and
   the scheduler keeps firing. *)
SpecFair == Spec /\ WF_vars(Next)

(* C12: every ingestion cycle that has started eventually returns a summary
   or throws. Stated as the claim reads; a region request that never responds
   leaves the cycle waiting forever. *)
C12_CycleTerminates == (pc = "cleanup") ~> (pc = "done")


(***************************************************************************)
(* Claims about the ingestion cycle.                                       *)
(***************************************************************************)

(* The fused records of the running cycle whose identifier is of interest. *)
OfInterest == {k \in 1..Len(mergedAircraft) : isRussianAircraft(mergedAircraft[k].hex)}

(* The position rows the running cycle has inserted. *)
InsertedNow == {k \in 1..Len(positions) : positions[k].timestamp = now}

(* The records of the running cycle with the given outcome. *)
WithOutcome(o) == {k \in 1..Len(outcome) : outcome[k] = o}

(* C5: every aircraft row and every position row has an identifier that
   isRussianAircraft accepts, and a cycle that returns a summary reports as
   tracked the number of fused records of interest and as stored no more
   than that. *)
C5_OnlyOfInterestStored ==
    /\ \A id \in DOMAIN aircraft : isRussianAircraft(JStr(id))
    /\ \A k \in 1..Len(positions) : isRussianAircraft(JStr(positions[k].icao24))
    /\ (pc = "done" /\ result.kind = "summary") =>
          /\ result.tracked = Cardinality(OfInterest)
          /\ result.stored <= Cardinality(OfInterest)

(* A cycle has fused a record that is not of interest with records that
   are, and has stored a position. *)
C5_Witness ==
    /\ pc = "done"
    /\ \E k \in 1..Len(mergedAircraft) : ~isRussianAircraft(mergedAircraft[k].hex)
    /\ result.kind = "summary" /\ result.stored > 0
    /\ aircraft # <<>>

(* C9: when the upsert or the insert of one record has failed, the cycle
   still returns a summary, every other record has been processed (its
   aircraft row carries the cycle's time, and its position is in the table
   unless its own statement failed or it has no coordinates), and stored is
   the number of positions the cycle inserted. *)
C9_StoreFailureIsolated ==
    (pc = "done" /\ WithOutcome("upsertFailed") \cup WithOutcome("insertFailed") # {}) =>
        /\ result.kind = "summary"
        /\ WithOutcome("pending") = {}
        /\ \A k \in WithOutcome("stored") \cup WithOutcome("noCoordinates") :
              LET id == toLowerCase(russianAircraft[k].hex.cs)
              IN id \in DOMAIN aircraft /\ aircraft[id].last_seen = now
        /\ \A k \in WithOutcome("stored") :
              \E r \in InsertedNow :
                  positions[r].icao24 = toLowerCase(russianAircraft[k].hex.cs)
        /\ result.stored = Cardinality(InsertedNow)

(* A statement of the first record failed and the position of a later
   record was inserted. *)
C9_Witness ==
    /\ pc = "done"
    /\ \E i, j \in 1..Len(outcome) :
          /\ i < j
          /\ outcome[i] \in {"upsertFailed", "insertFailed"}
          /\ outcome[j] = "stored"
    /\ result = Summary(2, 1)

(* C10: a cycle in which the cleanup or the statistics update failed ends
   with the summary of its records (zero and zero when nothing was fused),
   and a failed cleanup returned 0. *)
C10_HousekeepingFailureSwallowed ==
    (pc = "done" /\ dbFailed # {}) =>
        /\ result = IF Len(mergedAircraft) = 0
                    THEN Summary(0, 0)
                    ELSE Summary(Len(outcome), Cardinality(WithOutcome("stored")))
        /\ "cleanup" \in dbFailed => cleanupRet = 0

(* Both the cleanup and the statistics update failed in a cycle that stored
   a position. *)
C10_Witness ==
    /\ pc = "done"
    /\ dbFailed = {"cleanup", "stats"}
    /\ result.kind = "summary" /\ result.stored > 0


----------------------------------------------------------------------------
(* The scheduler of index.ts: cron.schedule every 30 s and the start-up     *)
(* timer, each calling fetchAndStoreRussianAircraft without waiting for an  *)
(* earlier call. The calls share the store; each await of a call is a point *)
(* where another call, or a trigger, may run.                               *)

CRON_PERIOD_MS == 30000
STARTUP_DELAY_MS == 2000

(* The number of times the cron trigger fires. *)
MaxCronFires == 1

(* What the feeds answer to every call. *)
SchedFeed == [adsb |-> Payload(<<AcUpper>>), opensky |-> Failure("notok")]

(* A call that has just been started. *)
NewCall(trigger) ==
    [by |-> trigger, pc |-> "cleanup", recs |-> <<>>, idx |-> 0, stamp |-> 0,
     stored |-> 0, rejected |-> 0, counts |-> JNull, result |-> JNull]

InProgress == {c \in 1..Len(calls) : calls[c].pc # "returned"}

(* The start-up timer is due 2 s after startServer scheduled it. *)
TimerDue == now = STARTUP_DELAY_MS /\ ~sched.timerFired

(* The cron trigger is due at every multiple of 30 s. *)
CronDue == now > 0 /\ now % CRON_PERIOD_MS = 0 /\ sched.cronFired < now \div CRON_PERIOD_MS

(* The next instant at which a trigger is due. *)
NextTrigger(t) ==
    IF t < STARTUP_DELAY_MS THEN STARTUP_DELAY_MS
    ELSE (t \div CRON_PERIOD_MS + 1) * CRON_PERIOD_MS

InitSched ==
    /\ calls = <<>>
    /\ sched = [timerFired |-> FALSE, cronFired |-> 0]
    /\ clearPc = "idle"
    /\ SegIdle /\ TrkIdle /\ FetchIdle /\ CycleIdle /\ ClassIdle

(* Time passes: by a millisecond, or up to the next trigger. *)
Advance ==
    /\ ~TimerDue /\ ~CronDue
    /\ \/ now % 1000 = 0 /\ now' = now + 1
       \/ NextTrigger(now) <= MaxCronFires * CRON_PERIOD_MS /\ now' = NextTrigger(now)
    /\ UNCHANGED <<aircraft, positions, daily_stats, pc, russianAircraft, idx, storedCount,
                   statsRow, result, outcome, cleanupRet, dbFailed, cycles, calls, sched, clearPc,
                   segVars, trkVars, fetchVars, classVars>>

(* setTimeout(async () => { await fetchAndStoreRussianAircraft() }, 2000) *)
StartupTimerFires ==
    /\ TimerDue
    /\ calls' = Append(calls, NewCall("timer"))
    /\ sched' = [sched EXCEPT !.timerFired = TRUE]
    /\ UNCHANGED <<cycleVars, clearPc, segVars, trkVars, fetchVars, classVars>>

(* cron.schedule('*/30 * * * * *', async () => { await fetchAndStoreRussianAircraft() }) *)
CronFires ==
    /\ CronDue
    /\ calls' = Append(calls, NewCall("cron"))
    /\ sched' = [sched EXCEPT !.cronFired = @ + 1]
    /\ UNCHANGED <<cycleVars, clearPc, segVars, trkVars, fetchVars, classVars>>


(* The steps of one call of fetchAndStoreRussianAircraft, c its position in
   calls. Statements succeed here; their failures are followed in Spec. *)

(* cleanupOldData *)
CallCleanup(c) ==
    /\ calls[c].pc = "cleanup"
    /\ positions' = SelectSeqBy(positions, (1..Len(positions)) \ Expired(positions, now))
    /\ calls' = [calls EXCEPT ![c].pc = "fetch"]
    /\ UNCHANGED <<aircraft, daily_stats>>

(* Promise.all of the adapters, the merge and the filter. *)
CallFetch(c) ==
    /\ calls[c].pc = "fetch"
    /\ LET a      == RunADSBone(AdapterStart, AdsbAnswers(SchedFeed.adsb))
           o      == RunOpenSky(AdapterStart, OpenSkyAnswers(SchedFeed.opensky))
           merged == Merge(a.allAircraft, o.allAircraft)
           kept   == KeepRussian(merged)
       IN calls' = [calls EXCEPT ![c] =
                      IF NothingFused(merged)
                      THEN [@ EXCEPT !.pc = "returned", !.result = Summary(0, 0)]
                      ELSE [@ EXCEPT !.recs = kept, !.idx = 1,
                                     !.pc = AfterRecord(0, Len(kept))]]
    /\ UNCHANGED <<aircraft, positions, daily_stats>>

(* The upsert statement starts: CURRENT_TIMESTAMP is the time at which the
   statement's transaction starts. *)
CallUpsertStarts(c) ==
    /\ calls[c].pc = "upsert"
    /\ calls' = [calls EXCEPT ![c].stamp = now, ![c].pc = "upsertRow"]
    /\ UNCHANGED <<aircraft, positions, daily_stats>>

(* The upsert statement inserts the row, or updates it once it holds the
   row's lock. *)
CallUpsertRow(c) ==
    /\ calls[c].pc = "upsertRow"
    /\ LET d == Derived(calls[c].recs[calls[c].idx])
       IN /\ aircraft' = UpsertAircraft(aircraft, d, calls[c].stamp)
          /\ calls' = [calls EXCEPT ![c] =
                         IF HasCoordinates(d)
                         THEN [@ EXCEPT !.pc = "insert"]
                         ELSE [@ EXCEPT !.idx = @ + 1,
                                        !.pc = AfterRecord(calls[c].idx, Len(calls[c].recs))]]
    /\ UNCHANGED <<positions, daily_stats>>

(* INSERT INTO positions *)
CallInsert(c) ==
    /\ calls[c].pc = "insert"
    /\ LET d == Derived(calls[c].recs[calls[c].idx])
       IN /\ ForeignKeyHolds(aircraft, d.icao24)
          /\ positions' = Append(positions, PositionRow(d, now))
    /\ calls' = [calls EXCEPT ![c] =
                   [@ EXCEPT !.stored = @ + 1, !.idx = @ + 1,
                             !.pc = AfterRecord(calls[c].idx, Len(calls[c].recs))]]
    /\ UNCHANGED <<aircraft, daily_stats>>

(* updateDailyStats: the SELECT. *)
CallSelectDayCounts(c) ==
    /\ calls[c].pc = "stats"
    /\ calls' = [calls EXCEPT ![c].counts = [today |-> DateOf(now)] @@ DayCounts(positions, DateOf(now)),
                              ![c].pc = "statsUpsert"]
    /\ UNCHANGED <<aircraft, positions, daily_stats>>

(* updateDailyStats: the upsert; then the call returns its summary. *)
CallUpsertDailyStats(c) ==
    /\ calls[c].pc = "statsUpsert"
    /\ LET row == calls[c].counts
       IN daily_stats' =
            [d \in DOMAIN daily_stats \cup {row.today} |->
               IF d = row.today
               THEN [unique_aircraft |-> row.unique_aircraft,
                     total_positions |-> row.total_positions]
               ELSE daily_stats[d]]
    /\ calls' = [calls EXCEPT ![c].pc = "returned",
                              ![c].result = Summary(Len(calls[c].recs), calls[c].stored)]
    /\ UNCHANGED <<aircraft, positions>>

CallStep ==
    /\ \E c \in 1..Len(calls) :
          \/ CallCleanup(c)
          \/ CallFetch(c)
          \/ CallUpsertStarts(c)
          \/ CallUpsertRow(c)
          \/ CallInsert(c)
          \/ CallSelectDayCounts(c)
          \/ CallUpsertDailyStats(c)
    /\ UNCHANGED <<now, pc, russianAircraft, idx, storedCount, statsRow, result, outcome,
                   cleanupRet, dbFailed, cycles, sched, clearPc, segVars, trkVars, fetchVars,
                   classVars>>

NextSched == Advance \/ StartupTimerFires \/ CronFires \/ CallStep

SpecSched == InitSched /\ [][NextSched]_vars

(* C11: at any time at most one call of fetchAndStoreRussianAircraft is in
   progress. Stated as the claim reads; the scheduler starts the cron call
   while the start-up call has not returned. *)
C11_OneCycleAtATime == Cardinality(InProgress) <= 1


(* C13: after every cycle that returns a summary, the daily_stats row of the
   current date exists and holds the counts over the positions of that date,
   also when the fused result was empty. Stated as the claim reads; the code
   returns its zero summary before updateDailyStats when nothing was fused. *)
C13_DailyStatsRecomputed ==
    (pc = "done" /\ result.kind = "summary") =>
        /\ DateOf(now) \in DOMAIN daily_stats
        /\ daily_stats[DateOf(now)] = DayCounts(positions, DateOf(now))


(* The records of the running cycle that carry both coordinates. *)
WithCoordinates == {k \in 1..Len(russianAircraft) : HasCoordinates(Derived(russianAircraft[k]))}

(* C14: the summary a cycle returns has tracked equal to the number of fused
   records passing the filter, and stored equal to the number of position
   rows the cycle inserted, one for each record with both coordinates whose
   upsert and insert succeeded. *)
C14_SummaryCounts ==
    (pc = "done" /\ result.kind = "summary") =>
        /\ result.tracked = Cardinality(OfInterest)
        /\ result.stored = Cardinality(InsertedNow)
        /\ result.stored = Cardinality(WithCoordinates \cap WithOutcome("stored"))
        /\ WithOutcome("stored") \subseteq WithCoordinates

(* A cycle fused three records, two of them of interest, and stored the
   positions of both. *)
C14_Witness ==
    /\ pc = "done"
    /\ Len(mergedAircraft) = 3
    /\ result = Summary(2, 2)
    /\ Cardinality(InsertedNow) = 2

(* C15: no position row has a null latitude or longitude; a record lacking a
   coordinate, if its upsert succeeded, has its aircraft row upserted, gets
   no position and is not counted in stored. *)
C15_PositionNeedsCoordinates ==
    /\ \A k \in 1..Len(positions) :
          positions[k].latitude.t # "null" /\ positions[k].longitude.t # "null"
    /\ pc = "done" =>
          \A k \in (1..Len(russianAircraft)) \ WithCoordinates :
              LET id == toLowerCase(russianAircraft[k].hex.cs)
              IN /\ outcome[k] \in {"noCoordinates", "upsertFailed"}
                 /\ outcome[k] = "noCoordinates" =>
                       /\ id \in DOMAIN aircraft /\ aircraft[id].last_seen = now
                       /\ \A r \in InsertedNow : positions[r].icao24 # id
                       /\ result.stored < result.tracked

(* A cycle has upserted a record that has a longitude and no latitude, and
   stored nothing. *)
C15_Witness ==
    /\ pc = "done"
    /\ \E k \in 1..Len(russianAircraft) :
          /\ outcome[k] = "noCoordinates"
          /\ russianAircraft[k].lon.t # "null"
          /\ aircraft[toLowerCase(russianAircraft[k].hex.cs)].last_seen = now
    /\ result = Summary(1, 0)


(* C16: an upsert that creates the row gives it one sighting; an upsert of
   an existing row adds exactly one sighting and sets last_seen to the time
   of the upsert, and when it brings the callsign and the type the row
   already has, both non-null, it leaves them as they are. *)
C16_UpsertTwice ==
    [][\A id \in DOMAIN aircraft' :
          IF id \notin DOMAIN aircraft
          THEN aircraft'[id].total_sightings = 1 /\ aircraft'[id].last_seen = now
          ELSE aircraft'[id] # aircraft[id] =>
                 LET d == Derived(russianAircraft[idx])
                 IN /\ d.icao24 = id
                    /\ aircraft'[id].total_sightings = aircraft[id].total_sightings + 1
                    /\ aircraft'[id].last_seen = now
                    /\ ( /\ d.callsign.t # "null" /\ d.callsign = aircraft[id].callsign
                         /\ d.aircraft_type.t # "null"
                         /\ d.aircraft_type = aircraft[id].aircraft_type )
                       => /\ aircraft'[id].callsign = aircraft[id].callsign
                          /\ aircraft'[id].aircraft_type = aircraft[id].aircraft_type]_vars

(* An identifier was upserted in two cycles with the same callsign and type:
   both cycles left a position with that callsign, the row has two
   sightings, and its last_seen is the time of the second. *)
C16_Witness ==
    \E id \in DOMAIN aircraft :
        /\ aircraft[id].total_sightings = 2
        /\ aircraft[id].callsign.t # "null" /\ aircraft[id].aircraft_type.t # "null"
        /\ aircraft[id].first_seen < aircraft[id].last_seen
        /\ \E r1, r2 \in 1..Len(positions) :
              /\ positions[r1].icao24 = id /\ positions[r2].icao24 = id
              /\ positions[r1].timestamp = aircraft[id].first_seen
              /\ positions[r2].timestamp = aircraft[id].last_seen
              /\ positions[r1].callsign = aircraft[id].callsign
              /\ positions[r2].callsign = aircraft[id].callsign


(* C17: for every aircraft row, across the calls of the scheduler, also the
   overlapping ones: first_seen does not change, last_seen and
   total_sightings do not decrease, and origin_country stays as inserted.
   Stated as the claim reads; of two overlapping upserts of one identifier
   the one that started first may write last, and puts last_seen back. *)
C17_RecordMonotone ==
    [][\A id \in DOMAIN aircraft \cap DOMAIN aircraft' :
          /\ aircraft'[id].first_seen = aircraft[id].first_seen
          /\ aircraft'[id].last_seen >= aircraft[id].last_seen
          /\ aircraft'[id].total_sightings >= aircraft[id].total_sightings
          /\ aircraft'[id].origin_country = aircraft[id].origin_country]_vars


----------------------------------------------------------------------------
(* isRussianAircraft applied to one identifier.                             *)

MaxIdLen == 4

ClsChars == {"1", "4", "5", "7", "8", "A", "a"}

(* null or undefined, the empty string, and the strings of up to MaxIdLen
   characters. *)
ClsInputs == {JNull} \cup {JStr(cs) : cs \in UNION {[1..n -> ClsChars] : n \in 0..MaxIdLen}}

InitClass ==
    /\ clsInput \in ClsInputs
    /\ clsOutput = FALSE
    /\ clsPc = "call"
    /\ SegIdle /\ TrkIdle /\ FetchIdle /\ CycleIdle /\ SchedIdle

CallIsRussianAircraft ==
    /\ clsPc = "call"
    /\ clsOutput' = isRussianAircraft(clsInput)
    /\ clsPc' = "done"
    /\ UNCHANGED <<clsInput, segVars, trkVars, fetchVars, cycleVars, schedVars>>

NextClass == CallIsRussianAircraft

SpecClass == InitClass /\ [][NextClass]_vars

(* The value of a hexadecimal digit in either case, -1 for another character. *)
HexVal(c) ==
    CASE c = "0" -> 0 [] c = "1" -> 1 [] c = "2" -> 2 [] c = "3" -> 3 [] c = "4" -> 4
      [] c = "5" -> 5 [] c = "6" -> 6 [] c = "7" -> 7 [] c = "8" -> 8 [] c = "9" -> 9
      [] c \in {"a", "A"} -> 10 [] c \in {"b", "B"} -> 11 [] c \in {"c", "C"} -> 12
      [] c \in {"d", "D"} -> 13 [] c \in {"e", "E"} -> 14 [] c \in {"f", "F"} -> 15
      [] OTHER -> -1

(* The first three characters are hexadecimal digits of a number from 140 to
   157 (hexadecimal). *)
InRussianRange(cs) ==
    /\ Len(cs) >= 3
    /\ \A i \in 1..3 : HexVal(cs[i]) >= 0
    /\ LET v == 256 * HexVal(cs[1]) + 16 * HexVal(cs[2]) + HexVal(cs[3])
       IN 320 <= v /\ v <= 343

UpperChar(c) == IF c = "a" THEN "A" ELSE c

(* C18: isRussianAircraft is true exactly for the identifiers whose first
   three characters, lower-cased, are one of the 24 prefixes 140..157; it
   gives the same result for the first three characters alone and for the
   identifier in upper or lower case, and false for null, the empty string
   and shorter identifiers. *)
C18_PrefixOnly ==
    /\ Len(RUSSIAN_ICAO_PREFIXES) = 24
    /\ clsPc = "done" =>
         /\ clsOutput = (clsInput.t = "str" /\ InRussianRange(clsInput.cs))
         /\ (clsInput.t = "null" \/ Len(clsInput.cs) < 3) => ~clsOutput
         /\ clsInput.t = "str" =>
              /\ clsOutput = isRussianAircraft(JStr(SubSeq(clsInput.cs, 1, Min(3, Len(clsInput.cs)))))
              /\ clsOutput = isRussianAircraft(JStr([i \in 1..Len(clsInput.cs) |-> UpperChar(clsInput.cs[i])]))
              /\ clsOutput = isRussianAircraft(JStr([i \in 1..Len(clsInput.cs) |-> LowerChar(clsInput.cs[i])]))

(* An identifier with an upper-case letter in its prefix was accepted. *)
C18_Witness ==
    /\ clsPc = "done" /\ clsOutput
    /\ clsInput.cs[3] = "A" /\ Len(clsInput.cs) = 4


----------------------------------------------------------------------------
(* getLiveAircraft                                                          *)

FIVE_MINUTES_MS == 300000

(* WHERE p.timestamp > NOW() - INTERVAL '5 minutes' *)
InLiveWindow(row, nowMs) == row.timestamp > nowMs - FIVE_MINUTES_MS

(* The orders in which the query may return the joined rows (by index in the
   positions table) of the last five minutes: ORDER BY p.icao24,
   p.timestamp DESC, rows the ORDER BY ties in any order. *)
LiveQueryOrders(table, acTable, nowMs) ==
    {f \in Perms({i \in 1..Len(table) :
                    table[i].icao24 \in DOMAIN acTable /\ InLiveWindow(table[i], nowMs)}) :
        \A i, j \in DOMAIN f : i < j => ~AircraftBefore(table[f[j]], table[f[i]])}

(* The selected columns of one joined row, and is_military. *)
LiveRow(p, a) ==
    [icao24 |-> p.icao24, callsign |-> p.callsign, origin_country |-> a.origin_country,
     latitude |-> p.latitude, longitude |-> p.longitude, altitude |-> p.altitude,
     timestamp |-> p.timestamp, total_sightings |-> a.total_sightings,
     first_seen |-> a.first_seen, last_seen |-> a.last_seen,
     is_military |-> isMilitary(p.icao24)]

getLiveAircraft(table, acTable, ord) ==
    LET rows == DistinctOn(table, ord)
    IN [k \in 1..Len(rows) |-> LiveRow(table[rows[k]], acTable[table[rows[k]].icao24])]

(* Before the window, on its edge, just inside it, and recent. *)
LiveTimes == <<TrkNow - 400000, TrkNow - FIVE_MINUTES_MS, TrkNow - 299999, TrkNow - 1000>>

LiveRowKinds ==
    { [icao24 |-> IdA, latitude |-> JNum(0), longitude |-> JNum(50)],
      [icao24 |-> IdA, latitude |-> JNum(0), longitude |-> JNum(51)],
      [icao24 |-> IdB, latitude |-> JNum(0), longitude |-> JNum(50)] }

LiveStamps(n) ==
    {f \in [1..n -> 1..Len(LiveTimes)] : \A i \in 1..(n - 1) : f[i] <= f[i + 1]}

(* Every icao24 of positions has its aircraft row (the foreign key). *)
LiveAircraftTable ==
    [id \in {IdA, IdB} |->
        [origin_country |-> "Russia", total_sightings |-> 2,
         first_seen |-> LiveTimes[1], last_seen |-> LiveTimes[4]]]

InitLive ==
    /\ \E n \in 0..MaxRows : \E ts \in LiveStamps(n) : \E ks \in [1..n -> LiveRowKinds] :
          trkTable = [i \in 1..n |-> TrkRow(ks[i], LiveTimes[ts[i]])]
    /\ trkAircraft = LiveAircraftTable
    /\ trkNow = TrkNow
    /\ trkArgs = JNull
    /\ tracks = <<>>
    /\ live = <<>> /\ history = <<>> /\ geojson = JNull /\ acRows = <<>>
    /\ trkPc = "callLive"
    /\ SegIdle /\ FetchIdle /\ CycleIdle /\ ClassIdle /\ SchedIdle

GetLiveAircraft ==
    /\ trkPc = "callLive"
    /\ \E ord \in LiveQueryOrders(trkTable, trkAircraft, trkNow) :
          live' = getLiveAircraft(trkTable, trkAircraft, ord)
    /\ trkPc' = "doneLive"
    /\ UNCHANGED <<trkTable, trkAircraft, trkNow, trkArgs, tracks, history, geojson, acRows,
                   segVars, fetchVars, cycleVars, classVars, schedVars>>

NextLive == GetLiveAircraft

SpecLive == InitLive /\ [][NextLive]_vars

(* C19: getLiveAircraft returns at most one row per identifier; the row is a
   position of that identifier with no later position in the table, its
   timestamp lies within the last five minutes, and the identifier has an
   aircraft row. *)
C19_LiveLatestPerAircraft ==
    trkPc = "doneLive" =>
        /\ \A j, k \in 1..Len(live) : j # k => live[j].icao24 # live[k].icao24
        /\ \A k \in 1..Len(live) :
              /\ live[k].timestamp > trkNow - FIVE_MINUTES_MS
              /\ live[k].timestamp <= trkNow
              /\ live[k].icao24 \in DOMAIN trkAircraft
              /\ \E i \in 1..Len(trkTable) :
                    /\ trkTable[i].icao24 = live[k].icao24
                    /\ trkTable[i].timestamp = live[k].timestamp
                    /\ trkTable[i].longitude = live[k].longitude
              /\ \A i \in 1..Len(trkTable) :
                    trkTable[i].icao24 = live[k].icao24 =>
                        trkTable[i].timestamp <= live[k].timestamp

(* One identifier has two positions in the window at different times, and
   two identifiers are returned. *)
C19_Witness ==
    /\ trkPc = "doneLive"
    /\ Len(live) = 2
    /\ \E i, j \in 1..Len(trkTable) :
          /\ trkTable[i].icao24 = trkTable[j].icao24
          /\ trkTable[i].timestamp < trkTable[j].timestamp
          /\ InLiveWindow(trkTable[i], trkNow)


----------------------------------------------------------------------------
(* Claims about one adapter's own list *)

UniqueLowerHex(list) ==
    \A j, k \in 1..Len(list) : j # k => LowerHex(list[j]) # LowerHex(list[k])

(* C20: the list an adapter returns, gathered over all of its regions, holds
   at most one entry per identifier compared after lower-casing. Stated as
   the claim reads; both adapters test seenHex with the identifier as it came,
   so one identifier delivered in two casings is kept twice. *)
C20_AdapterUnique ==
    /\ (adsb.i = NumCoveragePoints /\ ~adsb.threw) => UniqueLowerHex(adsb.allAircraft)
    /\ (opensky.i = NumBoundingBoxes /\ ~opensky.threw) => UniqueLowerHex(opensky.allAircraft)


----------------------------------------------------------------------------
(* Claims about the order and the effects of a cycle's steps *)

(* C21: when the fused result of a cycle is empty, the step that fuses the
   feeds ends the cycle with the summary of zero tracked and zero stored, and
   leaves the aircraft, positions and daily_stats tables as the cleanup left
   them. *)
C21_EmptyFusedShortCircuits ==
    [][(pc = "fetch" /\ pc' \notin {"fetch", "awaitingFetch"} /\ mergedAircraft' = <<>>) =>
          /\ pc' = "done"
          /\ result' = Summary(0, 0)
          /\ UNCHANGED <<aircraft, positions, daily_stats>>]_vars

(* A second cycle over a store that holds rows fused nothing and returned. *)
C21_Witness ==
    /\ pc = "done" /\ cycles = 2
    /\ mergedAircraft = <<>>
    /\ result = Summary(0, 0)
    /\ positions # <<>> /\ aircraft # <<>> /\ daily_stats # <<>>


(* The place of a step in fetchAndStoreRussianAircraft. *)
Phase(p) ==
    CASE p = "idle"                        -> 0
      [] p = "cleanup"                     -> 1
      [] p \in {"fetch", "awaitingFetch"}  -> 2
      [] p \in {"upsert", "insert"}        -> 3
      [] p \in {"stats", "statsUpsert"}    -> 4
      [] p = "return"                      -> 5
      [] p = "done"                        -> 6

(* C22: within a cycle the steps never go back (cleanup, then the feeds,
   then the per-record writes, then the daily statistics, then the return);
   positions are deleted only by the cleanup, the feeds are queried only
   after it, aircraft and positions rows are written only after both
   adapters have returned, the statistics are computed and written only
   when no record is left to process, and the summary is set by the cycle's
   last step. *)
C22_StepOrder ==
    [][pc' # "cleanup" =>
          /\ Phase(pc') >= Phase(pc)
          /\ Len(positions') < Len(positions) => pc = "cleanup"
          /\ <<adsb, opensky, mergedAircraft>>' # <<adsb, opensky, mergedAircraft>> =>
                pc = "fetch"
          /\ (aircraft' # aircraft \/ Len(positions') > Len(positions)) =>
                /\ pc \in {"upsert", "insert"}
                /\ adsb.i = NumCoveragePoints /\ opensky.i = NumBoundingBoxes
          /\ (statsRow' # statsRow \/ daily_stats' # daily_stats) =>
                /\ pc \in {"stats", "statsUpsert"}
                /\ WithOutcome("pending") = {}
          /\ result' # result => pc' = "done"
          /\ pc = "done" => UNCHANGED vars]_vars

(* A cycle that deleted old positions, wrote an aircraft and a position,
   wrote the day's statistics and returned its summary. *)
C22_Witness ==
    /\ pc = "done" /\ result.kind = "summary"
    /\ cleanupRet > 0
    /\ result.stored > 0
    /\ DateOf(now) \in DOMAIN daily_stats
    /\ daily_stats[DateOf(now)].total_positions > 0


(* The identifier of the record the loop is at. *)
CurrentId == Derived(russianAircraft[idx]).icao24

(* C23: the insert of a record's position is reached only by the step in
   which the upsert of the same record succeeded (the aircraft row of its
   identifier then carries the cycle's time); a positions row is added only
   by the insert of the record the loop is at, for that record's identifier;
   and the step in which a record's upsert fails adds no position and moves
   the loop past the record. *)
C23_UpsertBeforeInsert ==
    [][/\ pc' = "insert" =>
            /\ pc = "upsert"
            /\ idx' = idx
            /\ aircraft' # aircraft
            /\ CurrentId \in DOMAIN aircraft'
            /\ aircraft'[CurrentId].last_seen = now
       /\ Len(positions') > Len(positions) =>
            /\ pc = "insert"
            /\ outcome[idx] = "pending"
            /\ positions' = Append(positions, positions'[Len(positions')])
            /\ positions'[Len(positions')].icao24 = CurrentId
            /\ aircraft[CurrentId].last_seen = now
       /\ (pc = "upsert" /\ aircraft' = aircraft) =>
            /\ outcome'[idx] = "upsertFailed"
            /\ positions' = positions
            /\ pc' # "insert"
            /\ idx' = idx + 1]_vars

(* The upsert of a record with coordinates failed, the record was passed
   over, and the position of another record was inserted after its upsert. *)
C23_Witness ==
    /\ pc = "done"
    /\ \E k \in WithOutcome("upsertFailed") : HasCoordinates(Derived(russianAircraft[k]))
    /\ WithOutcome("stored") # {}
    /\ Cardinality(InsertedNow) = Cardinality(WithOutcome("stored"))


----------------------------------------------------------------------------
(* One fused record stored into a store that may hold its aircraft row: the
   upsert and the insert of the cycle, applied to records that vary in
   callsign, type, altitudes and coordinates. *)

StoreFlights ==
    { JNull, JStr(<<>>), JStr(<<" ">>), JStr(<<" ", " ">>),
      JStr(<<"S","D","M","9"," ">>), JStr(<<" ","X">>) }
StoreTypes == { JNull, JStr(<<>>), JStr(<<"A","3","2","0">>) }
StoreDescs == { JNull, JStr(<<"T","U">>) }
StoreBaros == { JNull, JNum(0), JNum(9000), GROUND }
StoreGeoms == { JNull, JNum(0), JNum(3000) }
StoreLats  == { JNull, JNum(0) }

StoredRows ==
    { [callsign |-> c, origin_country |-> "Russia", registration |-> JNull,
       aircraft_type |-> t, first_seen |-> 0, last_seen |-> 0, total_sightings |-> 1]
      : c \in {JNull, JStr(<<"A","F","L","1">>)}, t \in {JNull, JStr(<<"B","7","3","8">>)} }

InitStore ==
    /\ \E f \in StoreFlights, t \in StoreTypes, d \in StoreDescs, b \in StoreBaros,
          g \in StoreGeoms, la \in StoreLats, h \in {HexUpper, HexLower} :
         russianAircraft = <<Ac(JStr(h), f, la, JNum(50), b, g, t, d, "none")>>
    /\ \/ aircraft = <<>>
       \/ \E r \in StoredRows : aircraft = (HexLower :> r)
    /\ positions = <<>> /\ daily_stats = <<>>
    /\ now = 30000
    /\ pc = "upsert" /\ idx = 1 /\ outcome = <<"pending">>
    /\ storedCount = 0 /\ statsRow = JNull /\ result = JNull
    /\ cleanupRet = 0 /\ dbFailed = {} /\ cycles = 1
    /\ adsb = AdapterStart /\ opensky = AdapterStart
    /\ mergedAircraft = russianAircraft /\ fetchPc = "idle"
    /\ SegIdle /\ TrkIdle /\ ClassIdle /\ SchedIdle

NextStore == UpsertRecord \/ InsertPosition

SpecStore == InitStore /\ [][NextStore]_vars

(* The callsign of a feed record is absent, empty or made of blanks. *)
BlankInFeed(flight) ==
    flight.t = "null" \/ \A k \in 1..Len(flight.cs) : flight.cs[k] = " "

(* The record has neither a type code nor a description. *)
NoTypeInFeed(ac) ==
    /\ ac.t.t = "null" \/ ac.t.cs = <<>>
    /\ ac.desc.t = "null" \/ ac.desc.cs = <<>>

(* C24: an upsert of an identifier that has an aircraft row leaves the
   stored callsign as it was when the feed's callsign is absent, empty or
   blank, and otherwise replaces it by the feed's callsign without its
   surrounding blanks; it leaves the stored type as it was when the feed
   gives no type, and otherwise replaces it by the feed's type code, or by
   the description when there is no type code. *)
C24_NullKeepsStored ==
    [][(pc = "upsert" /\ aircraft' # aircraft /\ CurrentId \in DOMAIN aircraft) =>
          LET ac  == russianAircraft[idx]
              old == aircraft[CurrentId]
              new == aircraft'[CurrentId]
          IN /\ BlankInFeed(ac.flight) => new.callsign = old.callsign
             /\ ~BlankInFeed(ac.flight) =>
                   new.callsign.t = "str" /\ new.callsign.cs = trim(ac.flight.cs)
             /\ NoTypeInFeed(ac) => new.aircraft_type = old.aircraft_type
             /\ ~NoTypeInFeed(ac) =>
                   new.aircraft_type = IF NoTypeInFeed([ac EXCEPT !.desc = JNull])
                                       THEN ac.desc ELSE ac.t]_vars

(* A stored row with a callsign and a type has been upserted by a record
   with a blank callsign and no type, and has kept both. *)
C24_Witness ==
    /\ pc \in {"insert", "stats"}
    /\ cycles = 1 /\ now = 30000
    /\ russianAircraft[1].flight = JStr(<<" ", " ">>)
    /\ NoTypeInFeed(russianAircraft[1])
    /\ HexLower \in DOMAIN aircraft
    /\ aircraft[HexLower].total_sightings = 2
    /\ aircraft[HexLower].callsign = JStr(<<"A","F","L","1">>)
    /\ aircraft[HexLower].aircraft_type = JStr(<<"B","7","3","8">>)


(* The altitude the claim calls resolved: the barometric one, else the
   geometric one. *)
ResolvedAltitude(ac) == IF ac.alt_baro.t # "null" THEN ac.alt_baro ELSE ac.alt_geom

(* C25: the positions row inserted for a record has as altitude the
   resolved altitude when that is a number and null otherwise, so null when
   the barometric altitude is 'ground'; and its on_ground is true exactly
   when the barometric altitude is 'ground' or the resolved altitude is the
   number 0. *)
C25_AltitudeAndGround ==
    [][Len(positions') > Len(positions) =>
          LET ac  == russianAircraft[idx]
              row == positions'[Len(positions')]
              alt == ResolvedAltitude(ac)
          IN /\ row.altitude = IF alt.t = "num" THEN alt ELSE JNull
             /\ ac.alt_baro = GROUND => row.altitude = JNull
             /\ row.on_ground <=> (ac.alt_baro = GROUND \/ alt = JNum(0))]_vars

(* A position was inserted for a record on the ground by the sentinel,
   whose geometric altitude is a number: the altitude stored is null. *)
C25_Witness ==
    /\ pc = "stats" /\ cycles = 1 /\ now = 30000
    /\ Len(positions) = 1
    /\ russianAircraft[1].alt_baro = GROUND
    /\ russianAircraft[1].alt_geom = JNum(3000)
    /\ positions[1].altitude = JNull
    /\ positions[1].on_ground


----------------------------------------------------------------------------
(* The read paths over positions, applied to the store after a record has
   been stored: getAircraftHistory, the track route built on it, and
   getAllTracksLast24h. *)

(* What parseFloat gives for a text that is not a number. *)
JNaN == [t |-> "nan", n |-> 0, cs |-> <<>>]

(* parseFloat(String(v)) for a column value: a number stays, NULL becomes
   the text 'null', which parses to NaN. *)
ParseFloatOfString(v) == IF v.t = "num" THEN v ELSE JNaN

(* getAircraftHistory: the rows of the identifier inside the window, oldest
   first; ord is the order the ORDER BY returns. *)
getAircraftHistory(table, icao24, ord) ==
    LET mine == SelectSeqBy(ord, {k \in 1..Len(ord) :
                                     table[ord[k]].icao24 = toLowerCase(icao24)})
    IN [k \in 1..Len(mine) |-> table[mine[k]]]

(* coordinates of the LineString of GET /:icao24/track. *)
TrackCoordinates(rows) ==
    LET kept == SelectSeqBy(rows, {k \in 1..Len(rows) :
                                      Truthy(rows[k].latitude) /\ Truthy(rows[k].longitude)})
    IN [k \in 1..Len(kept) |->
          << ParseFloatOfString(kept[k].longitude),
             ParseFloatOfString(kept[k].latitude),
             OrElse(ParseFloatOfString(kept[k].altitude), JNum(0)) >>]

ReadLats == { JNum(0), JNum(55) }

(* An earlier position of the identifier, stored without an altitude. *)
EarlierPosition ==
    [icao24 |-> HexLower, callsign |-> JNull, latitude |-> JNum(55), longitude |-> JNum(50),
     altitude |-> JNull, on_ground |-> FALSE, timestamp |-> 0]

InitRead ==
    /\ \E b \in StoreBaros, g \in StoreGeoms, la \in ReadLats, h \in {HexUpper, HexLower} :
         russianAircraft = <<Ac(JStr(h), JNull, la, JNum(50), b, g, JNull, JNull, "none")>>
    /\ \/ aircraft = <<>> /\ positions = <<>>
       \/ \E r \in StoredRows : aircraft = (HexLower :> r) /\ positions = <<EarlierPosition>>
    /\ daily_stats = <<>>
    /\ now = 30000
    /\ pc = "upsert" /\ idx = 1 /\ outcome = <<"pending">>
    /\ storedCount = 0 /\ statsRow = JNull /\ result = JNull
    /\ cleanupRet = 0 /\ dbFailed = {} /\ cycles = 1
    /\ adsb = AdapterStart /\ opensky = AdapterStart
    /\ mergedAircraft = russianAircraft /\ fetchPc = "idle"
    /\ SegIdle /\ TrkIdle /\ ClassIdle /\ SchedIdle

(* A client calls getAircraftHistory for the identifier, in either casing. *)
GetAircraftHistory ==
    /\ pc = "stats" /\ history = <<>>
    /\ \E h \in {HexUpper, HexLower} : \E ord \in PositionQueryOrders(positions, now) :
          history' = getAircraftHistory(positions, h, ord)
    /\ UNCHANGED <<trkTable, trkAircraft, trkNow, trkArgs, tracks, trkPc, live, geojson, acRows,
                   segVars, fetchVars, cycleVars, classVars, schedVars>>

(* A client requests GET /:icao24/track. *)
GetTrack ==
    /\ pc = "stats" /\ geojson = JNull
    /\ \E ord \in PositionQueryOrders(positions, now) :
          LET rows == getAircraftHistory(positions, HexLower, ord)
          IN geojson' = [icao24 |-> HexLower, positions |-> Len(rows),
                         coordinates |-> TrackCoordinates(rows)]
    /\ UNCHANGED <<trkTable, trkAircraft, trkNow, trkArgs, tracks, trkPc, live, history, acRows,
                   segVars, fetchVars, cycleVars, classVars, schedVars>>

(* A client requests the tracks of the last 24 hours, without a centre. *)
GetAllTracksOfStore ==
    /\ pc = "stats" /\ trkPc = "idle"
    /\ \E o \in AircraftQueryOrders(positions, now) \X PositionQueryOrders(positions, now) :
          tracks' = getAllTracksLast24h(positions, aircraft,
                                        [centerLat |-> JNull, centerLon |-> JNull,
                                         radiusKm |-> JNull], o[1], o[2])
    /\ trkPc' = "done"
    /\ UNCHANGED <<trkTable, trkAircraft, trkNow, trkArgs, live, history, geojson, acRows,
                   segVars, fetchVars, cycleVars, classVars, schedVars>>

NextRead ==
    \/ UpsertRecord
    \/ InsertPosition
    \/ GetAircraftHistory
    \/ GetTrack
    \/ GetAllTracksOfStore

SpecRead == InitRead /\ [][NextRead]_vars

(* Every stored position has a null altitude. *)
AllAltitudesNull == \A k \in 1..Len(positions) : positions[k].altitude = JNull

(* C26: when the positions stored have a null altitude, every position read
   back has a null altitude: in the rows of getAircraftHistory, in the
   tracks of getAllTracksLast24h, and in the coordinates of the track
   route. Stated as the claim reads; the track route turns the null into 0. *)
C26_NullAltitudeReadBack ==
    AllAltitudesNull =>
        /\ \A k \in 1..Len(history) : history[k].altitude = JNull
        /\ \A t \in 1..Len(tracks) : \A k \in 1..Len(tracks[t].positions) :
              tracks[t].positions[k].altitude = JNull
        /\ geojson # JNull =>
              \A k \in 1..Len(geojson.coordinates) : geojson.coordinates[k][3] = JNull


----------------------------------------------------------------------------
(* getAllTracksLast24h running while the cleanup of a cycle runs, fails or
   has not run: the aircraft query and each aircraft's position query are
   statements of their own, and the clock moves between them. *)

(* The number of times the clock moves on during a call. *)
MaxWaits == 2

(* Rows of two aircraft, with both coordinates. *)
RetainRowKinds ==
    {k \in TrkRowKinds : k.latitude.t # "null" /\ k.longitude = JNum(50)}

InitRetain ==
    /\ \E n \in 0..MaxRows : \E ts \in TrkStamps(n) : \E ks \in [1..n -> RetainRowKinds] :
          positions = [i \in 1..n |-> TrkRow(ks[i], TrkTimes[ts[i]])]
    /\ aircraft = TrkAircraftTable
    /\ daily_stats = <<>>
    /\ now = TrkNow
    /\ pc = "cleanup" /\ cycles = 1
    /\ russianAircraft = <<>> /\ idx = 0 /\ outcome = <<>>
    /\ storedCount = 0 /\ statsRow = JNull /\ result = JNull
    /\ cleanupRet = 0 /\ dbFailed = {}
    /\ adsb = AdapterStart /\ opensky = AdapterStart /\ mergedAircraft = <<>>
    /\ fetchPc = "idle"
    /\ trkTable = <<>> /\ trkAircraft = {} /\ trkNow = 0 /\ trkArgs = JNull
    /\ tracks = <<>> /\ trkPc = "call" /\ live = <<>>
    /\ history = <<>> /\ geojson = JNull /\ acRows = <<>>
    /\ SegIdle /\ ClassIdle /\ SchedIdle

(* Time passes between two statements. *)
Wait ==
    /\ now < TrkNow + MaxWaits * CRON_PERIOD_MS
    /\ now' = now + CRON_PERIOD_MS
    /\ UNCHANGED <<aircraft, positions, daily_stats, pc, russianAircraft, idx, storedCount,
                   statsRow, result, outcome, cleanupRet, dbFailed, cycles,
                   segVars, trkVars, fetchVars, classVars, schedVars>>

(* The aircraft query of getAllTracksLast24h. *)
QueryAircraft ==
    /\ trkPc = "call"
    /\ \E ord \in AircraftQueryOrders(positions, now) :
          LET rows == DistinctOn(positions, ord)
          IN acRows' = [k \in 1..Len(rows) |-> AircraftRow(positions, aircraft, rows[k])]
    /\ trkNow' = now
    /\ trkArgs' = [centerLat |-> JNull, centerLon |-> JNull, radiusKm |-> JNull]
    /\ tracks' = <<>>
    /\ trkPc' = "positions"
    /\ UNCHANGED <<trkTable, trkAircraft, live, history, geojson,
                   segVars, fetchVars, cycleVars, classVars, schedVars>>

(* The position query of the next row of aircraftResult.rows, and the rest
   of the loop's iteration. *)
QueryPositions ==
    /\ trkPc = "positions" /\ acRows # <<>>
    /\ \E ordT \in PositionQueryOrders(positions, now) :
          tracks' = tracks \o TrackOfRow(positions, Head(acRows), ordT, trkArgs)
    /\ acRows' = Tail(acRows)
    /\ UNCHANGED <<trkTable, trkAircraft, trkNow, trkArgs, trkPc, live, history, geojson,
                   segVars, fetchVars, cycleVars, classVars, schedVars>>

(* return tracks *)
ReturnTracks ==
    /\ trkPc = "positions" /\ acRows = <<>>
    /\ trkPc' = "done"
    /\ UNCHANGED <<trkTable, trkAircraft, trkNow, trkArgs, tracks, live, history, geojson,
                   acRows, segVars, fetchVars, cycleVars, classVars, schedVars>>

NextRetain ==
    \/ Wait
    \/ CleanupOldData
    \/ CleanupOldDataFails
    \/ QueryAircraft
    \/ QueryPositions
    \/ ReturnTracks

SpecRetain == InitRetain /\ [][NextRetain]_vars

(* Every position of every track gathered lies in the 24 hours before the
   call, and the positions of a track are in the order of their times. *)
TracksInWindow ==
    \A t \in 1..Len(tracks) :
        LET ps == tracks[t].positions
        IN /\ \A k \in 1..Len(ps) :
                 ps[k].timestamp > trkNow - DAY_MS /\ ps[k].timestamp <= trkNow
           /\ \A j, k \in 1..Len(ps) : j < k => ps[j].timestamp <= ps[k].timestamp

(* C27: every position of a track that getAllTracksLast24h returns has a
   timestamp in the 24 hours before the call, and a track's positions are
   in non-decreasing order of timestamp, whether the cleanup has not run,
   has failed, or runs between the statements of the call; and the step in
   which the cleanup succeeds leaves no position older than 24 hours. *)
C27_TracksWithinRetention ==
    /\ []TracksInWindow
    /\ [][(pc = "cleanup" /\ pc' = "fetch" /\ "cleanup" \notin dbFailed') =>
             \A k \in 1..Len(positions') : positions'[k].timestamp >= now - DAY_MS]_vars

(* A call returned a track although the table held a position older than
   24 hours when it started; the cleanup deleted that position between two
   statements of the call, and the clock moved during the call. *)
C27_Witness ==
    /\ trkPc = "done" /\ tracks # <<>>
    /\ pc = "fetch" /\ cleanupRet > 0
    /\ now > trkNow
    /\ \A k \in 1..Len(positions) : positions[k].timestamp >= now - DAY_MS


----------------------------------------------------------------------------
(* The bulk clear of DELETE /tracks running beside the calls of the
   scheduler: its two statements are awaited one after the other, and a
   call's statements may run before, between and after them. *)

(* DELETE FROM aircraft with ON DELETE CASCADE on positions.icao24: the
   positions of the deleted aircraft go with them. *)
CascadeDelete(posTable, deleted) ==
    SelectSeqBy(posTable, {k \in 1..Len(posTable) : posTable[k].icao24 \notin deleted})

(* Two calls started by the cron trigger are in progress, the second one
   started a period after the first; the store holds an aircraft and a
   position of it written more than 24 hours earlier. *)
InitClear ==
    /\ calls = <<NewCall("cron"), NewCall("cron")>>
    /\ sched = [timerFired |-> TRUE, cronFired |-> (DAY_MS + CRON_PERIOD_MS) \div CRON_PERIOD_MS]
    /\ clearPc = "idle"
    /\ now = DAY_MS + CRON_PERIOD_MS
    /\ \E r \in StoredRows : aircraft = (HexLower :> r)
    /\ positions = <<EarlierPosition>>
    /\ daily_stats = <<>>
    /\ pc = "idle" /\ russianAircraft = <<>> /\ idx = 0
    /\ storedCount = 0 /\ statsRow = JNull /\ result = JNull /\ outcome = <<>>
    /\ cleanupRet = 0 /\ dbFailed = {} /\ cycles = 0
    /\ SegIdle /\ TrkIdle /\ FetchIdle /\ ClassIdle

(* The request arrives and its first statement, DELETE FROM positions, runs. *)
ClearPositions ==
    /\ clearPc = "idle"
    /\ positions' = <<>>
    /\ clearPc' = "deleteAircraft"
    /\ UNCHANGED <<aircraft, daily_stats, now, pc, russianAircraft, idx, storedCount,
                   statsRow, result, outcome, cleanupRet, dbFailed, cycles, calls, sched,
                   segVars, trkVars, fetchVars, classVars>>

(* Its second statement, DELETE FROM aircraft, and the response. *)
ClearAircraft ==
    /\ clearPc = "deleteAircraft"
    /\ aircraft' = <<>>
    /\ positions' = CascadeDelete(positions, DOMAIN aircraft)
    /\ clearPc' = "done"
    /\ UNCHANGED <<daily_stats, now, pc, russianAircraft, idx, storedCount,
                   statsRow, result, outcome, cleanupRet, dbFailed, cycles, calls, sched,
                   segVars, trkVars, fetchVars, classVars>>

(* The second statement fails: the route answers 500 and the aircraft stay. *)
ClearAircraftFails ==
    /\ clearPc = "deleteAircraft"
    /\ clearPc' = "failed"
    /\ UNCHANGED <<cycleVars, calls, sched, segVars, trkVars, fetchVars, classVars>>

(* A call's INSERT INTO positions is rejected by the foreign key: the catch
   of the loop body logs, and the loop goes on. *)
CallInsertRejected ==
    /\ \E c \in 1..Len(calls) :
          /\ calls[c].pc = "insert"
          /\ ~ForeignKeyHolds(aircraft, Derived(calls[c].recs[calls[c].idx]).icao24)
          /\ calls' = [calls EXCEPT ![c] =
                         IF StoreErrorEscapes(TRUE)
                         THEN [@ EXCEPT !.pc = "returned", !.result = Thrown]
                         ELSE [@ EXCEPT !.rejected = @ + 1, !.idx = @ + 1,
                                        !.pc = AfterRecord(calls[c].idx, Len(calls[c].recs))]]
    /\ UNCHANGED <<cycleVars, sched, clearPc, segVars, trkVars, fetchVars, classVars>>

NextClear ==
    \/ CallStep
    \/ CallInsertRejected
    \/ ClearPositions
    \/ ClearAircraft
    \/ ClearAircraftFails

SpecClear == InitClear /\ [][NextClear]_vars

(* The records of a call that have both coordinates. *)
CallWithCoordinates(c) ==
    {k \in 1..Len(calls[c].recs) : HasCoordinates(Derived(calls[c].recs[k]))}

(* C28: in every state, whatever the interleaving of the calls, their
   cleanups and the bulk clear, every position's identifier has an aircraft
   row; and a call whose insert was rejected because the bulk clear had
   deleted the aircraft row still returns its summary, in which stored
   counts the inserts that succeeded. *)
C28_NoOrphanPositions ==
    /\ \A k \in 1..Len(positions) : positions[k].icao24 \in DOMAIN aircraft
    /\ \A c \in 1..Len(calls) :
          calls[c].pc = "returned" =>
             /\ calls[c].result = Summary(Len(calls[c].recs), calls[c].stored)
             /\ calls[c].stored + calls[c].rejected = Cardinality(CallWithCoordinates(c))

(* The bulk clear deleted the aircraft between a call's upsert and its
   insert: the insert was rejected and the call returned; another call
   stored a position afterwards. *)
C28_Witness ==
    /\ clearPc = "done"
    /\ \E c \in 1..Len(calls) :
          /\ calls[c].pc = "returned"
          /\ calls[c].rejected = 1
          /\ calls[c].result = Summary(1, 0)
    /\ positions # <<>>


----------------------------------------------------------------------------
(* Claims about calls that overlap *)

(* The number of upserts of the identifier that call c has carried out. *)
UpsertsDone(c, id) ==
    Cardinality({k \in 1..Len(calls[c].recs) :
                    /\ Derived(calls[c].recs[k]).icao24 = id
                    /\ \/ k < calls[c].idx
                       \/ k = calls[c].idx /\ calls[c].pc = "insert"})

AllUpsertsDone(id) == SeqSum([c \in 1..Len(calls) |-> UpsertsDone(c, id)])

(* C29: when calls overlap and upsert the same identifier, no increment is
   lost: at every moment the record's total_sightings is the number of
   upserts of the identifier carried out so far, 1 for the upsert that
   created the record and 1 more for each later one; the identifier has no
   record before its first upsert, and, icao24 being the table's unique
   key, one record after it. *)
C29_NoLostSighting ==
    \A id \in {HexLower, HexUpper} :
        IF AllUpsertsDone(id) = 0
        THEN id \notin DOMAIN aircraft
        ELSE /\ id \in DOMAIN aircraft
             /\ aircraft[id].total_sightings = AllUpsertsDone(id)

(* Two calls are in progress and each has upserted the identifier, neither
   having inserted its position yet: the record counts two sightings. *)
C29_Witness ==
    /\ Len(calls) = 2
    /\ calls[1].pc = "insert" /\ calls[2].pc = "insert"
    /\ HexLower \in DOMAIN aircraft
    /\ aircraft[HexLower].total_sightings = 2


(* The fused records of interest that carry both coordinates. *)
OfInterestWithCoordinates ==
    {k \in OfInterest : mergedAircraft[k].lat.t # "null" /\ mergedAircraft[k].lon.t # "null"}

(* C30: every summary a cycle returns has stored between 0 and tracked, and
   stored no greater than the number of fused records of interest that
   carry both coordinates. *)
C30_SummaryBounds ==
    (pc = "done" /\ result.kind = "summary") =>
        /\ 0 <= result.stored
        /\ result.stored <= result.tracked
        /\ result.stored <= Cardinality(OfInterestWithCoordinates)

(* A summary below both bounds: two records of interest carry coordinates
   and the insert of one of them failed. *)
C30_Witness ==
    /\ pc = "done" /\ result.kind = "summary"
    /\ result.stored = 1 /\ result.tracked = 2
    /\ Cardinality(OfInterestWithCoordinates) = 2
    /\ WithOutcome("insertFailed") # {}

=============================================================================
